---- MODULE Spec2Model ----
(***************************************************************************)
(* The Intcode emulator of src/src/intcode.rs and a driver that calls its  *)
(* public operations (write, read, read_all, get, set, step, run) in any   *)
(* order.  Words are i64 in the source; every word of the model stays far  *)
(* inside that range, so + and * never overflow here.  Addresses are cast  *)
(* `as usize` on a 64-bit target: a negative word becomes an index of at   *)
(* least 2^63.                                                             *)
(***************************************************************************)
EXTENDS Integers, Sequences, FiniteSets, TLC

VARIABLES
    emu,      \* the Emulator: memory, ip, sp, input_buffer, output_buffer
    pc,       \* "idle": between calls; "run": inside run()'s loop; "dead": panicked
    call,     \* the public operation called last
    state,    \* the State returned last by step() or run() ("None": none yet)
    before,   \* the value of state when the last step() began, when the last
              \* call was step() or run()
    op,       \* the Op decoded by step(), when the last call was step() or run()
    retval,   \* what the last call returned, when it was get/read/read_all
    arg,      \* the arguments of the last call, when it was get/set/write
    nset,     \* number of set() calls made so far
    written,  \* history: the values passed to write(), in the order of the calls
    reads,    \* history: the word each executed Read left at its target, in
              \* the order of the Reads
    loaded,   \* the Program the emulator was constructed from
    machines, \* the emulators of a driver that has two: cloned from the base
              \* emu, from each other, or constructed from loaded
    logs,     \* history: for each of the two, the calls made on it since its
              \* construction, with what each returned
    text,     \* the program text handed to Program::from_str, as characters
    parsed,   \* what from_str made of it
    wide,     \* the last operation on the parsed 64-bit words and its result
    phases,   \* feedback_amps: the phases it was called with
    amps,     \* feedback_amps: its amplifiers, in order
    signal,   \* feedback_amps: the signal that goes to the next amplifier
    thruster_signal,  \* feedback_amps: what it returns in the end
    fpc,      \* feedback_amps: where it is, and at which amplifier
    trace,    \* history: the calls feedback_amps made on its amplifiers, each
              \* with the word it passed or was given and the State it got
    arcade,   \* day13's ArcadeMachine: emulator, display, score
    strategy, \* the strategy ArcadeMachine::run was called with
    apc,      \* where the ArcadeMachine is, with the locals of its step
    shown,    \* history: all the output the ArcadeMachine has read so far
    inputs,   \* the inputs a driver has for the program, in order
    eager,    \* the emulator of a driver that writes all inputs, then runs
    lazy      \* the emulator of a driver that runs, and writes one input
              \* each time run returns ReadWait

\* what the calls on the one emulator emu leave alone
feedback == <<phases, amps, signal, thruster_signal, fpc, trace>>

game == <<arcade, strategy, apc, shown>>

supply == <<inputs, eager, lazy>>

others ==
    <<loaded, machines, logs, text, parsed, wide, feedback, game, supply>>

vars == <<emu, pc, call, state, before, op, retval, arg, nset, written, reads,
          others>>

----------------------------------------------------------------------------
(* Bounds of the model *)

MaxMem == 12
MaxWord == 22300
MaxSp == 3
MaxQueue == 2
MaxSets == 1
MaxWrites == 3
MaxCalls == 4
MaxRun == 8
MaxText == 3
MaxAmpRun == 12
MaxArcadeRun == 16
MaxShown == 24

----------------------------------------------------------------------------
(* Words, parameters and instructions *)

MODE_POSITION == 0
MODE_IMMEDIATE == 1
MODE_RELATIVE == 2

\* Rust's / and % on i64 truncate towards zero
quot(a, b) == IF a >= 0 THEN a \div b ELSE -((-a) \div b)

rem(a, b) == IF a >= 0 THEN a % b ELSE -((-a) % b)

Position(v) == [mode |-> "Position", v |-> v]

Immediate(v) == [mode |-> "Immediate", v |-> v]

Relative(v) == [mode |-> "Relative", v |-> v]

\* Param::new that takes an unrecognised mode for Position
Param_new_lenient(mode, v) ==
    CASE mode = MODE_IMMEDIATE -> Immediate(v)
      [] mode = MODE_RELATIVE -> Relative(v)
      [] OTHER -> Position(v)

\* Param::new; "Unrecognised" stands for the panic of the last arm
Param_new(mode, v) ==
    CASE mode = MODE_POSITION -> Position(v)
      [] mode = MODE_IMMEDIATE -> Immediate(v)
      [] mode = MODE_RELATIVE -> Relative(v)
      [] OTHER -> [mode |-> "Unrecognised", v |-> mode]

Op(code, params) == [code |-> code, params |-> params]

NoOp == Op("None", <<>>)

\* size with Write counted as size 1, like Halt
size_Write_1(o) ==
    CASE o.code \in {"Add", "Mul", "LessThan", "Equal"} -> 4
      [] o.code \in {"Read", "AdjustBase"} -> 2
      [] o.code \in {"JumpIfTrue", "JumpIfFalse"} -> 3
      [] o.code \in {"Halt", "Write"} -> 1

\* Op::size
size(o) ==
    CASE o.code \in {"Add", "Mul", "LessThan", "Equal"} -> 4
      [] o.code \in {"Read", "Write", "AdjustBase"} -> 2
      [] o.code \in {"JumpIfTrue", "JumpIfFalse"} -> 3
      [] o.code = "Halt" -> 1

----------------------------------------------------------------------------
(* The emulator, as operators on an Emulator record e *)

\* new that starts the relative base at 1
new_sp_one(program) ==
    [memory |-> program, ip |-> 0, sp |-> 1,
     input_buffer |-> <<>>, output_buffer |-> <<>>]

\* Emulator::new
new(program) ==
    [memory |-> program, ip |-> 0, sp |-> 0,
     input_buffer |-> <<>>, output_buffer |-> <<>>]

\* get with the cells counted from 1
get_from_one(e, pos) ==
    IF pos >= 1 /\ pos <= Len(e.memory) THEN e.memory[pos] ELSE 0

\* Emulator::get: a negative pos is, as usize, beyond every length
get(e, pos) ==
    IF pos >= 0 /\ pos < Len(e.memory) THEN e.memory[pos + 1] ELSE 0

\* make_pointer that fills the cells it creates with 1
make_pointer_fill_one(memory, pos) ==
    IF pos >= Len(memory)
    THEN memory \o [i \in 1..(pos + 1 - Len(memory)) |-> 1]
    ELSE memory

\* Emulator::make_pointer for 0 <= pos: the memory, grown to hold pos
make_pointer(memory, pos) ==
    IF pos >= Len(memory)
    THEN memory \o [i \in 1..(pos + 1 - Len(memory)) |-> 0]
    ELSE memory

\* *self.make_pointer(pos as usize) = v, for a word pos: the outcomes.
\* pos < 0 panics: -1 is usize::MAX, where pos + 1 either panics (overflow
\* checks on) or wraps to 0, so that resize empties the memory before the
\* index panics; any other negative pos makes resize panic on its capacity.
store(memory, pos, v) ==
    IF pos >= 0
    THEN {[memory |-> [make_pointer(memory, pos) EXCEPT ![pos + 1] = v],
           panic |-> FALSE]}
    ELSE IF pos = -1
    THEN {[memory |-> memory, panic |-> TRUE], [memory |-> <<>>, panic |-> TRUE]}
    ELSE {[memory |-> memory, panic |-> TRUE]}

\* Emulator::set: the outcomes [e, panic]
set(e, pos, v) ==
    {[e |-> [e EXCEPT !.memory = w.memory], panic |-> w.panic] :
        w \in store(e.memory, pos, v)}

\* write that puts the value at the head of the queue
write_front(e, v) == [e EXCEPT !.input_buffer = <<v>> \o @]

\* Emulator::write
write(e, v) == [e EXCEPT !.input_buffer = Append(@, v)]

\* read that takes the newest output
read_newest(e) ==
    IF e.output_buffer = <<>>
    THEN [e |-> e, ret |-> <<>>]
    ELSE [e |-> [e EXCEPT !.output_buffer = SubSeq(@, 1, Len(@) - 1)],
          ret |-> <<e.output_buffer[Len(e.output_buffer)]>>]

\* Emulator::read: [e, ret], ret = <<>> for None and <<v>> for Some(v)
read(e) ==
    IF e.output_buffer = <<>>
    THEN [e |-> e, ret |-> <<>>]
    ELSE [e |-> [e EXCEPT !.output_buffer = Tail(@)],
          ret |-> <<Head(e.output_buffer)>>]

\* Emulator::read_all
read_all(e) ==
    [e |-> [e EXCEPT !.output_buffer = <<>>], ret |-> e.output_buffer]

\* mode with the parameters counted from 0: pow($i) for pow($i - 1)
mode_from_zero(modes, i) == rem(quot(modes, 10 ^ i), 10)

\* mode with the digits taken from the most significant of three
mode_reversed(modes, i) == rem(quot(modes, 10 ^ (3 - i)), 10)

\* the mode! macro of fetch: the mode of the 1-indexed parameter i
mode(modes, i) == rem(quot(modes, 10 ^ (i - 1)), 10)

\* the op! macro of fetch: an Op of the given arity, its parameters decoded
\* in order; a panic of Param::new is the panic of fetch
op_arity(e, pos, modes, code, arity) ==
    LET p(i) == Param_new(mode(modes, i), get(e, pos + i))
        ps == [i \in 1..arity |-> p(i)]
    IN  IF \E i \in 1..arity : ps[i].mode = "Unrecognised"
        THEN Op("PanicMode", <<>>)
        ELSE Op(code, ps)

\* fetch that takes the word 0 for a Halt
fetch_zero_halts(e, pos) ==
    LET w == get(e, pos)
        modes == quot(w, 100)
        opcode == rem(w, 100)
    IN  CASE opcode = 1 -> op_arity(e, pos, modes, "Add", 3)
          [] opcode = 2 -> op_arity(e, pos, modes, "Mul", 3)
          [] opcode = 3 -> op_arity(e, pos, modes, "Read", 1)
          [] opcode = 4 -> op_arity(e, pos, modes, "Write", 1)
          [] opcode = 5 -> op_arity(e, pos, modes, "JumpIfTrue", 2)
          [] opcode = 6 -> op_arity(e, pos, modes, "JumpIfFalse", 2)
          [] opcode = 7 -> op_arity(e, pos, modes, "LessThan", 3)
          [] opcode = 8 -> op_arity(e, pos, modes, "Equal", 3)
          [] opcode = 9 -> op_arity(e, pos, modes, "AdjustBase", 1)
          [] opcode \in {0, 99} -> Op("Halt", <<>>)
          [] OTHER -> Op("PanicOpcode", <<>>)

\* Emulator::fetch; "PanicOpcode" and "PanicMode" stand for its panics
fetch(e, pos) ==
    LET w == get(e, pos)
        modes == quot(w, 100)
        opcode == rem(w, 100)
    IN  CASE opcode = 1 -> op_arity(e, pos, modes, "Add", 3)
          [] opcode = 2 -> op_arity(e, pos, modes, "Mul", 3)
          [] opcode = 3 -> op_arity(e, pos, modes, "Read", 1)
          [] opcode = 4 -> op_arity(e, pos, modes, "Write", 1)
          [] opcode = 5 -> op_arity(e, pos, modes, "JumpIfTrue", 2)
          [] opcode = 6 -> op_arity(e, pos, modes, "JumpIfFalse", 2)
          [] opcode = 7 -> op_arity(e, pos, modes, "LessThan", 3)
          [] opcode = 8 -> op_arity(e, pos, modes, "Equal", 3)
          [] opcode = 9 -> op_arity(e, pos, modes, "AdjustBase", 1)
          [] opcode = 99 -> Op("Halt", <<>>)
          [] OTHER -> Op("PanicOpcode", <<>>)

\* the address a Position or Relative parameter names
Address(e, param) ==
    IF param.mode = "Relative" THEN e.sp + param.v ELSE param.v

\* value with a Relative parameter read as a Position one
value_ignores_sp(e, param) ==
    CASE param.mode = "Position" -> get(e, param.v)
      [] param.mode = "Immediate" -> param.v
      [] param.mode = "Relative" -> get(e, param.v)

\* Emulator::value
value(e, param) ==
    CASE param.mode = "Position" -> get(e, param.v)
      [] param.mode = "Immediate" -> param.v
      [] param.mode = "Relative" -> get(e, e.sp + param.v)

\* pointer that drops the store through an Immediate parameter
pointer_drops(e, param, v) ==
    CASE param.mode = "Position" -> store(e.memory, param.v, v)
      [] param.mode = "Relative" -> store(e.memory, e.sp + param.v, v)
      [] OTHER -> {[memory |-> e.memory, panic |-> FALSE]}

\* *self.pointer(param) = v: the outcomes [memory, panic]
pointer(e, param, v) ==
    CASE param.mode = "Position" -> store(e.memory, param.v, v)
      [] param.mode = "Relative" -> store(e.memory, e.sp + param.v, v)
      [] OTHER -> {[memory |-> e.memory, panic |-> TRUE]}

\* An arm of step's match ends in one of: "Next" (falls through to
\* self.ip += op.size()), "Continue", "Halt", "ReadWait" (returns at once),
\* "Panic"
Outcome(e, st) == [e |-> e, state |-> st]

\* the arms that assign through pointer(c): Add, Mul, LessThan, Equal
assign(e, c, v) ==
    {Outcome([e EXCEPT !.memory = w.memory], IF w.panic THEN "Panic" ELSE "Next") :
        w \in pointer(e, c, v)}

arm_Add(e, a, b, c) == assign(e, c, value(e, a) + value(e, b))

\* arm_Mul computed in place: b is stored at c, then multiplied by a read anew
arm_Mul_in_place(e, a, b, c) ==
    UNION {IF r.state = "Panic"
           THEN {r}
           ELSE assign(r.e, c, value(r.e, a) * value(e, b)) :
                r \in assign(e, c, value(e, b))}

arm_Mul(e, a, b, c) == assign(e, c, value(e, a) * value(e, b))

arm_LessThan(e, a, b, c) ==
    assign(e, c, IF value(e, a) < value(e, b) THEN 1 ELSE 0)

arm_Equal(e, a, b, c) ==
    assign(e, c, IF value(e, a) = value(e, b) THEN 1 ELSE 0)

\* arm_Read with the instruction pointer advanced past a starved Read
arm_Read_skips(e, a) ==
    IF e.input_buffer = <<>>
    THEN {Outcome([e EXCEPT !.ip = @ + 2], "ReadWait")}
    ELSE assign([e EXCEPT !.input_buffer = Tail(@)], a, Head(e.input_buffer))

\* arm_Read that goes back to the start of the program when it is starved
arm_Read_rewinds(e, a) ==
    IF e.input_buffer = <<>>
    THEN {Outcome([e EXCEPT !.ip = 0], "ReadWait")}
    ELSE assign([e EXCEPT !.input_buffer = Tail(@)], a, Head(e.input_buffer))

\* arm_Read that may also wait when an input is queued
arm_Read_spurious(e, a) ==
    {Outcome(e, "ReadWait")}
        \cup IF e.input_buffer = <<>>
             THEN {}
             ELSE assign([e EXCEPT !.input_buffer = Tail(@)], a,
                         Head(e.input_buffer))

\* arm_Read with the input left in the queue
arm_Read_keeps(e, a) ==
    IF e.input_buffer = <<>>
    THEN {Outcome(e, "ReadWait")}
    ELSE assign(e, a, Head(e.input_buffer))

\* arm_Read that waits although one input is queued
arm_Read_early(e, a) ==
    IF Len(e.input_buffer) <= 1
    THEN {Outcome(e, "ReadWait")}
    ELSE assign([e EXCEPT !.input_buffer = Tail(@)], a, Head(e.input_buffer))

\* Read: pop_front comes first, then the assignment through pointer(a)
arm_Read(e, a) ==
    IF e.input_buffer = <<>>
    THEN {Outcome(e, "ReadWait")}
    ELSE assign([e EXCEPT !.input_buffer = Tail(@)], a, Head(e.input_buffer))

\* arm_Write that reads its operand through make_pointer, growing memory
arm_Write_grows(e, a) ==
    {Outcome([e EXCEPT !.output_buffer = Append(@, value(e, a)),
                       !.memory = IF a.mode # "Immediate" /\ Address(e, a) >= 0
                                  THEN make_pointer(@, Address(e, a))
                                  ELSE @],
             "Next")}

\* arm_Write that reads its operand as a Position, whatever its mode
arm_Write_position(e, a) ==
    {Outcome([e EXCEPT !.output_buffer = Append(@, get(e, a.v))], "Next")}

arm_Write(e, a) ==
    {Outcome([e EXCEPT !.output_buffer = Append(@, value(e, a))], "Next")}

\* arm_JumpIfTrue falling through to self.ip += op.size() after the jump
arm_JumpIfTrue_adds_size(e, test, dest) ==
    IF value(e, test) # 0
    THEN {Outcome([e EXCEPT !.ip = value(e, dest)], "Next")}
    ELSE {Outcome(e, "Next")}

arm_JumpIfTrue(e, test, dest) ==
    IF value(e, test) # 0
    THEN {Outcome([e EXCEPT !.ip = value(e, dest)], "Continue")}
    ELSE {Outcome(e, "Next")}

arm_JumpIfFalse(e, test, dest) ==
    IF value(e, test) = 0
    THEN {Outcome([e EXCEPT !.ip = value(e, dest)], "Continue")}
    ELSE {Outcome(e, "Next")}

\* arm_AdjustBase that sets sp to the operand
arm_AdjustBase_sets(e, a) ==
    {Outcome([e EXCEPT !.sp = value(e, a)], "Next")}

arm_AdjustBase(e, a) ==
    {Outcome([e EXCEPT !.sp = @ + value(e, a)], "Next")}

\* arm_Halt with the instruction pointer advanced
arm_Halt_advances(e) == {Outcome([e EXCEPT !.ip = @ + 1], "Halt")}

arm_Halt(e) == {Outcome(e, "Halt")}

\* the match of step on the decoded op
arms(e, o) ==
    LET p == o.params
    IN  CASE o.code = "Add" -> arm_Add(e, p[1], p[2], p[3])
          [] o.code = "Mul" -> arm_Mul(e, p[1], p[2], p[3])
          [] o.code = "Read" -> arm_Read(e, p[1])
          [] o.code = "Write" -> arm_Write(e, p[1])
          [] o.code = "JumpIfTrue" -> arm_JumpIfTrue(e, p[1], p[2])
          [] o.code = "JumpIfFalse" -> arm_JumpIfFalse(e, p[1], p[2])
          [] o.code = "LessThan" -> arm_LessThan(e, p[1], p[2], p[3])
          [] o.code = "Equal" -> arm_Equal(e, p[1], p[2], p[3])
          [] o.code = "AdjustBase" -> arm_AdjustBase(e, p[1])
          [] o.code = "Halt" -> arm_Halt(e)
          [] OTHER -> {Outcome(e, "Panic")}

\* advance by the size of the instruction that is at ip after the arm has
\* run
advance_by_rewritten(r, o) ==
    LET n == fetch(r.e, r.e.ip)
    IN  IF r.state = "Next"
        THEN Outcome([r.e EXCEPT !.ip = @ + IF n.code \in {"PanicOpcode", "PanicMode"}
                                           THEN size(o) ELSE size(n)],
                     "Continue")
        ELSE r

\* the end of step: self.ip += op.size(); return State::Continue
advance(r, o) ==
    IF r.state = "Next"
    THEN Outcome([r.e EXCEPT !.ip = @ + size(o)], "Continue")
    ELSE r

\* Emulator::step: the outcomes [e, state]
step(e) ==
    LET o == fetch(e, e.ip)
    IN  {advance(r, o) : r \in arms(e, o)}

\* the payloads of the panics a step() of e can raise, each with the fields
\* its panic site gives it: the tuple handed to panic! in fetch and in
\* Param::new (for the first parameter, in order, with an unrecognised mode),
\* the message of pointer, and the messages of the runtime for a store at a
\* negative address (the index, the capacity of resize, the overflow of
\* pos + 1)
panic_payload(e) ==
    LET w == get(e, e.ip)
        o == fetch(e, e.ip)
        bad == {i \in 1..3 : mode(quot(w, 100), i) \notin {0, 1, 2}}
        c == IF o.code = "Read" THEN o.params[1] ELSE o.params[3]
    IN  CASE o.code = "PanicOpcode" ->
                {[msg |-> "unknown opcode", opcode |-> rem(w, 100)]}
          [] o.code = "PanicMode" ->
                {[msg |-> "unrecognised mode",
                  mode |-> mode(quot(w, 100),
                                CHOOSE i \in bad : \A j \in bad : i <= j)]}
          [] o.code \in {"Add", "Mul", "LessThan", "Equal"}
                \/ (o.code = "Read" /\ e.input_buffer # <<>>) ->
                IF c.mode = "Immediate"
                THEN {[msg |-> "invalid parameter for pointer"]}
                ELSE IF Address(e, c) < 0
                THEN {[msg |-> "index out of bounds"],
                      [msg |-> "capacity overflow"],
                      [msg |-> "attempt to add with overflow"]}
                ELSE {}
          [] OTHER -> {}

\* run_match returning after the first step, whatever it returned
run_match_once(st) == "idle"

\* run_match looping on ReadWait, waiting for input
run_match_blocks(st) == IF st = "Halt" THEN "idle" ELSE "run"

\* the match of run's loop on what step returned: loop on, or return it
run_match(st) == IF st = "Continue" THEN "run" ELSE "idle"

----------------------------------------------------------------------------
(* The programs the emulator is constructed from, and the driver's inputs *)

\* the program of tests::test_program_day02_1
Day02_1 == <<1, 9, 10, 3, 2, 3, 11, 0, 99, 30, 40, 50>>

\* the program of tests::test_program_day02_5
Day02_5 == <<1, 1, 1, 4, 99, 5, 6, 0, 99>>

Programs ==
    { <<3, 0, 4, 0, 99>>,                    \* echo one input
      <<1002, 4, 3, 4, 33>>,                 \* writes its own Halt
      <<99, 1002, 4, 3, 4>>,                 \* tests::test_fetch
      <<1, 0, 0, 0, 99>>,                    \* tests::test_program_day02_2
      <<2, 3, 0, 3, 99>>,                    \* tests::test_program_day02_3
      Day02_1,
      Day02_5,
      <<1105, 1, 3, 1105, 1, 0>>,            \* two jumps, each to the other
      <<1106, 0, 3, 1106, 0, 0>>,            \* two jumps, each to the other
      <<3, 7, 4, 7, 1105, 1, 0>>,            \* echoes for ever
      <<3, 0, 3, 1, 4, 0, 4, 1, 99>>,        \* two inputs, two outputs
      <<3, 1, 99>>,                          \* Read into its own operand
      <<1101, 98, 1, 0, 1105, 1, 0>>,        \* makes its first word a Halt
      <<109, 1, 203, 2, 204, 2, 99>>,        \* Relative Read and Write
      <<109, 1, 2205, 1, 5, 99, 5>>,         \* Relative jump
      <<5, 0, 4, 99, 3>>,                    \* Position JumpIfTrue
      <<6, 5, 4, 99, 3, 0>>,                 \* Position JumpIfFalse
      <<1101, 1, 1, 7, 99>>,                 \* stores beyond the end
      <<3, 0, 1007, 0, 1, 0, 4, 0, 99>>,     \* input < 1
      <<3, 0, 1008, 0, 5, 0, 4, 0, 99>>,     \* input = 5
      <<3, 0, 1006, 0, 6, 99, 4, 0, 99>>,    \* JumpIfFalse on the input
      <<3, 0, 1005, 0, 6, 99, 104, 7, 99>>,  \* JumpIfTrue on the input
      <<4, 0>>,                              \* runs off its end
      <<1105, 1, -1>>,                       \* jumps before the start
      <<304, 0, 99>>,                        \* mode digit 3
      <<3001, 0, 0, 0, 99>>,                 \* mode digit 3, second parameter
      <<3104, 8, 99>>,                       \* digit 3 beyond the arity of Write
      <<11101, 1, 1, 0, 99>>,                \* Immediate target of Add
      <<103, 0, 99>>,                        \* Immediate target of Read
      <<4, -1, 99>>,                         \* operand at address -1
      <<109, -1, 204, 0, 204, 9, 99>>,       \* operands at sp + 0 = -1, sp + 9 = 8
      <<4, 9, 99>>,                          \* operand beyond the end
      <<9, 6, 209, 4, 99, 2, 1>>,            \* sp + 1, then sp + 2
      <<1101, 1, 1, -1, 99>>,                \* target at address -1
      <<109, 3, 21101, 1, 1, 4, 99>>,        \* target at address sp + 4 = 7
      <<109, -2, 21101, 1, 1, 0, 99>>,       \* target at address sp + 0 = -2
      <<-99>> }                              \* negative instruction word

\* the programs run() is followed on to its end, or for ever
RunPrograms ==
    { <<3, 0, 4, 0, 99>>,
      <<1105, 1, 3, 1105, 1, 0>>,
      <<3, 0, 1006, 0, 6, 99, 4, 0, 99>>,
      <<3, 7, 4, 7, 1105, 1, 0>> }

Inputs == {0, 5}

GetAddrs == {-1, 7}

SetAddrs == {-1, 0, 7}

SetWords == {2}

\* the part of the state space the model follows
InRange(e) ==
    /\ Len(e.memory) <= MaxMem
    /\ \A i \in 1..Len(e.memory) : e.memory[i] \in -MaxWord..MaxWord
    /\ e.ip \in -MaxWord..MaxWord
    /\ e.sp \in -MaxSp..MaxSp
    /\ Len(e.input_buffer) <= MaxQueue
    /\ Len(e.output_buffer) <= MaxQueue
    /\ \A i \in 1..Len(e.output_buffer) : e.output_buffer[i] \in -MaxWord..MaxWord

----------------------------------------------------------------------------
(* The driver *)

\* the word of an operation that gave none
NoWord == <<>>

NotParsed == [result |-> "None", code |-> <<>>]

NoWide == [op |-> "None", panic |-> FALSE, word |-> NoWord]

\* no program text is involved
NoText == text = <<>> /\ parsed = NotParsed /\ wide = NoWide

\* feedback_amps is not called
NoFeedback ==
    /\ phases = <<>>
    /\ amps = <<>>
    /\ signal = 0
    /\ thruster_signal = 0
    /\ fpc = [at |-> "none", amp |-> 0]
    /\ trace = <<>>

\* the locals of ArcadeMachine::step: the State of the run, the output read,
\* the index of the next chunk in it; ret is what step returned last
Locals(at, st, output, next, ret) ==
    [at |-> at, state |-> st, output |-> output, next |-> next, ret |-> ret]

\* there is no ArcadeMachine
NoGame ==
    /\ arcade = <<>>
    /\ strategy = "none"
    /\ apc = Locals("none", "None", <<>>, 1, TRUE)
    /\ shown = <<>>

\* a driver's emulator: st is what its last run returned, given the number
\* of inputs written to it so far
Driven(at, e, st, given) == [at |-> at, e |-> e, state |-> st, given |-> given]

\* there are no such drivers
NoSupply ==
    /\ inputs = <<>>
    /\ eager = Driven("none", <<>>, "None", 0)
    /\ lazy = Driven("none", <<>>, "None", 0)

\* the driver has constructed the emulator from one of the programs
Constructed(programs) ==
    /\ \E p \in programs : loaded = p /\ emu = new(p)
    /\ pc = "idle"
    /\ call = "new"
    /\ state = "None"
    /\ before = "None"
    /\ op = NoOp
    /\ retval = <<>>
    /\ arg = <<>>
    /\ nset = 0
    /\ written = <<>>
    /\ reads = <<>>
    /\ machines = <<>>
    /\ logs = <<>>
    /\ NoText
    /\ NoFeedback
    /\ NoGame
    /\ NoSupply

Init == Constructed(Programs)

RunInit == Constructed(RunPrograms)

\* Stepping with the instruction decoded from the words of the program as
\* loaded, and executed on the memory as it is
Stepping_cached(loop) ==
    LET o == fetch(new(loaded), emu.ip)
    IN  \E r \in {advance(x, o) : x \in arms(emu, o)} :
            /\ r.state = "Panic" \/ InRange(r.e)
            /\ emu' = r.e
            /\ op' = o
            /\ before' = state
            /\ reads' = reads
            /\ IF r.state = "Panic"
               THEN pc' = "dead" /\ state' = "None"
               ELSE /\ state' = r.state
                    /\ pc' = IF loop THEN run_match(r.state) ELSE "idle"

\* a call of step() with the outcome r, made by the driver (loop = FALSE) or
\* by run's loop
Effect(loop, r) ==
    /\ emu' = r.e
    /\ op' = fetch(emu, emu.ip)
    /\ before' = state
    /\ reads' = IF fetch(emu, emu.ip).code = "Read" /\ r.state = "Continue"
                THEN Append(reads,
                        get(r.e, Address(emu, fetch(emu, emu.ip).params[1])))
                ELSE reads
    /\ IF r.state = "Panic"
       THEN pc' = "dead" /\ state' = "None"
       ELSE /\ state' = r.state
            /\ pc' = IF loop THEN run_match(r.state) ELSE "idle"

\* one call of step(), followed inside the range of the model
Stepping(loop) ==
    \E r \in step(emu) :
        /\ r.state = "Panic" \/ InRange(r.e)
        /\ Effect(loop, r)

\* one call of step(), followed wherever it leads
SteppingFreely(loop) == \E r \in step(emu) : Effect(loop, r)

CallStep ==
    /\ pc = "idle"
    /\ Stepping(FALSE)
    /\ call' = "step"
    /\ retval' = <<>>
    /\ arg' = <<>>
    /\ UNCHANGED <<nset, written, others>>

\* run() is entered
CallRun ==
    /\ pc = "idle"
    /\ pc' = "run"
    /\ call' = "run"
    /\ op' = NoOp
    /\ before' = "None"
    /\ retval' = <<>>
    /\ arg' = <<>>
    /\ UNCHANGED <<emu, state, nset, written, reads, others>>

\* one iteration of run's loop
RunLoop ==
    /\ pc = "run"
    /\ Stepping(TRUE)
    /\ UNCHANGED <<call, retval, arg, nset, written, others>>

CallWrite ==
    /\ pc = "idle"
    /\ Len(emu.input_buffer) < MaxQueue
    /\ Len(written) < MaxWrites
    /\ \E v \in Inputs :
        /\ emu' = write(emu, v)
        /\ arg' = <<v>>
        /\ written' = Append(written, v)
    /\ call' = "write"
    /\ op' = NoOp
    /\ before' = "None"
    /\ retval' = <<>>
    /\ UNCHANGED <<pc, state, nset, reads, others>>

CallRead ==
    /\ pc = "idle"
    /\ emu' = read(emu).e
    /\ retval' = read(emu).ret
    /\ arg' = <<>>
    /\ call' = "read"
    /\ op' = NoOp
    /\ before' = "None"
    /\ UNCHANGED <<pc, state, nset, written, reads, others>>

CallReadAll ==
    /\ pc = "idle"
    /\ emu' = read_all(emu).e
    /\ retval' = read_all(emu).ret
    /\ arg' = <<>>
    /\ call' = "read_all"
    /\ op' = NoOp
    /\ before' = "None"
    /\ UNCHANGED <<pc, state, nset, written, reads, others>>

CallGet ==
    /\ pc = "idle"
    /\ \E pos \in GetAddrs : retval' = <<get(emu, pos)>> /\ arg' = <<pos>>
    /\ call' = "get"
    /\ op' = NoOp
    /\ before' = "None"
    /\ UNCHANGED <<emu, pc, state, nset, written, reads, others>>

CallSet ==
    /\ pc = "idle"
    /\ nset < MaxSets
    /\ \E pos \in SetAddrs, v \in SetWords : \E r \in set(emu, pos, v) :
        /\ emu' = r.e
        /\ pc' = IF r.panic THEN "dead" ELSE "idle"
        /\ arg' = <<pos, v>>
    /\ nset' = nset + 1
    /\ call' = "set"
    /\ op' = NoOp
    /\ before' = "None"
    /\ retval' = <<>>
    /\ UNCHANGED <<state, written, reads, others>>

Next ==
    \/ CallStep
    \/ CallRun
    \/ RunLoop
    \/ CallWrite
    \/ CallRead
    \/ CallReadAll
    \/ CallGet
    \/ CallSet

Spec == Init /\ [][Next]_vars

----------------------------------------------------------------------------
(* A driver with two emulators, as day07's feedback_amps and day15's
   State::step have: clones of a base emulator, or of each other.  The driver
   is one thread: it makes one call at a time, on one emulator. *)

Machines == {1, 2}

PairPrograms == {<<3, 0, 4, 0, 99>>, <<3, 7, 4, 7, 1105, 1, 0>>}

PairInputs == {5}

\* clone that leaves the queues behind
clone_fresh_queues(e) ==
    [memory |-> e.memory, ip |-> e.ip, sp |-> e.sp,
     input_buffer |-> <<>>, output_buffer |-> <<>>]

\* #[derive(Clone)] on Emulator: each field cloned, Vec and VecDeque by value
clone(e) ==
    [memory |-> e.memory, ip |-> e.ip, sp |-> e.sp,
     input_buffer |-> e.input_buffer, output_buffer |-> e.output_buffer]

\* update with the input queue a thing the emulators share
update_shared_input(ms, m, e) ==
    [k \in DOMAIN ms |->
        IF k = m THEN e ELSE [ms[k] EXCEPT !.input_buffer = e.input_buffer]]

\* a method with receiver &mut self, called on emulator m, leaves it as e:
\* the fields are owned by the one Emulator
update(ms, m, e) == [ms EXCEPT ![m] = e]

\* Emulator::run as one call: the outcomes of at most fuel steps; "Running"
\* when the loop has not returned by then
RECURSIVE run(_, _)
run(e, fuel) ==
    IF fuel = 0
    THEN {Outcome(e, "Running")}
    ELSE UNION {IF r.state = "Continue" THEN run(r.e, fuel - 1) ELSE {r} :
                    r \in step(e)}

\* a call, as the logs keep it: the method, its arguments, what it returned
Call(method, args, ret) == [call |-> method, arg |-> args, ret |-> ret]

\* the outcomes [e, ret, panic] of a call of method with args on emulator e
Outcomes(e, method, args) ==
    CASE method = "step" ->
            {[e |-> r.e, ret |-> <<r.state>>, panic |-> r.state = "Panic"] :
                r \in step(e)}
      [] method = "run" ->
            {[e |-> r.e, ret |-> <<r.state>>, panic |-> r.state = "Panic"] :
                r \in {x \in run(e, MaxRun) : x.state # "Running"}}
      [] method = "write" ->
            {[e |-> write(e, args[1]), ret |-> <<>>, panic |-> FALSE]}
      [] method = "read" ->
            {[e |-> read(e).e, ret |-> read(e).ret, panic |-> FALSE]}
      [] method = "read_all" ->
            {[e |-> read_all(e).e, ret |-> read_all(e).ret, panic |-> FALSE]}
      [] method = "set" ->
            {[e |-> r.e, ret |-> <<>>, panic |-> r.panic] :
                r \in set(e, args[1], args[2])}
      [] method = "clone" ->
            {[e |-> e, ret |-> <<>>, panic |-> FALSE]}

\* the calls the driver makes on an emulator
Methods ==
    {<<"step", <<>>>>, <<"run", <<>>>>, <<"read", <<>>>>, <<"read_all", <<>>>>,
     <<"set", <<7, 2>>>>}
        \cup {<<"write", <<v>>>> : v \in PairInputs}

\* the number of calls logged
Logged == Len(logs[1]) + Len(logs[2])

PairInit ==
    /\ \E p \in PairPrograms : loaded = p /\ emu = new(p)
    /\ machines = [k \in Machines |-> clone(emu)]
    /\ logs = [k \in Machines |-> <<>>]
    /\ pc = "idle"
    /\ call = "clone"
    /\ arg = <<>>
    /\ retval = <<>>
    /\ state = "None"
    /\ before = "None"
    /\ op = NoOp
    /\ nset = 0
    /\ written = <<>>
    /\ reads = <<>>
    /\ NoText
    /\ NoFeedback
    /\ NoGame
    /\ NoSupply

\* what a call on one of the two emulators leaves alone
PairFrame ==
    UNCHANGED <<emu, state, before, op, nset, written, reads, loaded,
                text, parsed, wide, feedback, game, supply>>

\* machines[k] = Emulator::new(&program)
PairNew ==
    /\ pc = "idle"
    /\ \E k \in Machines :
        /\ machines' = update(machines, k, new(loaded))
        /\ logs' = [logs EXCEPT ![k] = <<>>]
        /\ arg' = <<k>>
    /\ call' = "new"
    /\ retval' = <<>>
    /\ UNCHANGED pc
    /\ PairFrame

\* machines[k] = machines[m].clone()
PairClone ==
    /\ pc = "idle"
    /\ \E m \in Machines : \E k \in Machines \ {m} :
        /\ 2 * Len(logs[m]) + 1 <= MaxCalls
        /\ machines' = update(machines, k, clone(machines[m]))
        /\ logs' = [logs EXCEPT ![k] = Append(logs[m], Call("clone", <<m>>, <<>>))]
        /\ arg' = <<m, k>>
    /\ call' = "clone"
    /\ retval' = <<>>
    /\ UNCHANGED pc
    /\ PairFrame

\* machines[m].method(args)
PairCall ==
    /\ pc = "idle"
    /\ Logged < MaxCalls
    /\ \E m \in Machines, c \in Methods :
        \E r \in Outcomes(machines[m], c[1], c[2]) :
            /\ machines' = update(machines, m, r.e)
            /\ logs' = [logs EXCEPT ![m] = Append(@, Call(c[1], c[2], r.ret))]
            /\ call' = c[1]
            /\ arg' = <<m>> \o c[2]
            /\ retval' = r.ret
            /\ pc' = IF r.panic THEN "dead" ELSE "idle"
    /\ PairFrame

PairNext ==
    \/ PairNew
    \/ PairClone
    \/ PairCall

PairSpec == PairInit /\ [][PairNext]_vars

----------------------------------------------------------------------------
(* day07's feedback_amps(base, phases), statement by statement *)

\* the program of day07_example4.txt, with which tests::test_run_feedback_amps_1
\* expects 139629729 for the phases 9, 8, 7, 6, 5
Example4 ==
    <<3, 26, 1001, 26, -4, 26, 3, 27, 1002, 27, 2, 27, 1, 27, 26, 27, 4, 27,
      1001, 28, -1, 28, 1005, 28, 6, 99, 0, 0, 5>>

\* read the phase; twice: read a signal, emit signal + phase; halt
AddPhaseTwice ==
    <<3, 18, 3, 19, 1, 18, 19, 19, 4, 19, 1001, 20, -1, 20, 1005, 20, 2, 99,
      0, 0, 2>>

\* read the phase; as many times as the phase says: read a signal, emit
\* signal + 1; halt
CountDown ==
    <<3, 18, 3, 19, 1001, 19, 1, 19, 4, 19, 1001, 18, -1, 18, 1005, 18, 2, 99,
      0, 0>>

\* the programs and phases feedback_amps is called with: besides the three
\* above, an amplifier that echoes its signal once and halts, one that emits
\* it twice, one that halts without output, one that reads a second signal
\* before it emits, and one that stores its signal at address -1
FeedbackCalls ==
    { [program |-> Example4, phases |-> <<9, 8, 7, 6, 5>>],
      [program |-> AddPhaseTwice, phases |-> <<5, 6>>],
      [program |-> AddPhaseTwice, phases |-> <<6, 5, 7>>],
      [program |-> CountDown, phases |-> <<2, 1>>],
      [program |-> CountDown, phases |-> <<1, 2>>],
      [program |-> <<3, 0, 3, 1, 4, 1, 99>>, phases |-> <<5, 6>>],
      [program |-> <<3, 0, 3, 1, 4, 1, 4, 0, 99>>, phases |-> <<5, 6>>],
      [program |-> <<3, 0, 99>>, phases |-> <<5, 6>>],
      [program |-> <<3, 0, 3, 1, 3, 2, 4, 2, 99>>, phases |-> <<5, 6>>],
      [program |-> <<3, 0, 3, -1, 99>>, phases |-> <<5>>] }

\* a call on amplifier k, as the trace keeps it
AmpCall(k, method, word, st) ==
    [amp |-> k, call |-> method, word |-> word, state |-> st]

Place(at, k) == [at |-> at, amp |-> k]

FeedbackInit ==
    /\ \E c \in FeedbackCalls :
            loaded = c.program /\ emu = new(loaded) /\ phases = c.phases
    /\ amps = <<>>
    /\ signal = 0
    /\ thruster_signal = 0
    /\ fpc = Place("clone", 1)
    /\ trace = <<>>
    /\ pc = "idle"
    /\ call = "new"
    /\ state = "None"
    /\ before = "None"
    /\ op = NoOp
    /\ retval = <<>>
    /\ arg = <<>>
    /\ nset = 0
    /\ written = <<>>
    /\ reads = <<>>
    /\ machines = <<>>
    /\ logs = <<>>
    /\ NoText
    /\ NoGame
    /\ NoSupply

\* what feedback_amps leaves alone
FeedbackFrame ==
    UNCHANGED <<emu, pc, call, state, before, op, arg, nset, written, reads,
                loaded, machines, logs, text, parsed, wide, phases, game,
                supply>>

\* the closure of the map: let mut amp = base.clone(); amp.write(*phase)
AmpClone ==
    /\ fpc.at = "clone"
    /\ amps' = Append(amps, write(clone(emu), phases[fpc.amp]))
    /\ trace' = trace \o <<AmpCall(fpc.amp, "clone", 0, ""),
                           AmpCall(fpc.amp, "write", phases[fpc.amp], "")>>
    /\ fpc' = IF fpc.amp = Len(phases) THEN Place("write", 1)
              ELSE Place("clone", fpc.amp + 1)
    /\ UNCHANGED <<signal, thruster_signal, retval>>
    /\ FeedbackFrame

\* AmpWrite that gives every amplifier the signal 0
AmpWrite_zero ==
    /\ fpc.at = "write"
    /\ amps' = update(amps, fpc.amp, write(amps[fpc.amp], 0))
    /\ trace' = Append(trace, AmpCall(fpc.amp, "write", 0, ""))
    /\ fpc' = Place("run", fpc.amp)
    /\ UNCHANGED <<signal, thruster_signal, retval>>
    /\ FeedbackFrame

\* amp.write(signal)
AmpWrite ==
    /\ fpc.at = "write"
    /\ amps' = update(amps, fpc.amp, write(amps[fpc.amp], signal))
    /\ trace' = Append(trace, AmpCall(fpc.amp, "write", signal, ""))
    /\ fpc' = Place("run", fpc.amp)
    /\ UNCHANGED <<signal, thruster_signal, retval>>
    /\ FeedbackFrame

\* amp.run(): the State it returns is dropped
AmpRun ==
    /\ fpc.at = "run"
    /\ \E r \in run(amps[fpc.amp], MaxAmpRun) :
        /\ r.state # "Running"
        /\ amps' = update(amps, fpc.amp, r.e)
        /\ trace' = Append(trace, AmpCall(fpc.amp, "run", 0, r.state))
        /\ fpc' = Place(IF r.state = "Panic" THEN "dead" ELSE "read", fpc.amp)
    /\ UNCHANGED <<signal, thruster_signal, retval>>
    /\ FeedbackFrame

\* if let Some(v) = amp.read() { signal = v } else { break 'outer }
AmpRead ==
    /\ fpc.at = "read"
    /\ LET r == read(amps[fpc.amp])
       IN  /\ amps' = update(amps, fpc.amp, r.e)
           /\ IF r.ret = <<>>
              THEN /\ trace' = Append(trace, AmpCall(fpc.amp, "read", 0, "None"))
                   /\ fpc' = Place("return", fpc.amp)
                   /\ UNCHANGED signal
              ELSE /\ trace' = Append(trace,
                                    AmpCall(fpc.amp, "read", r.ret[1], "Some"))
                   /\ signal' = r.ret[1]
                   /\ fpc' = IF fpc.amp = Len(amps) THEN Place("round", fpc.amp)
                             ELSE Place("write", fpc.amp + 1)
    /\ UNCHANGED <<thruster_signal, retval>>
    /\ FeedbackFrame

\* RoundEnd that leaves thruster_signal as it was when amplifier 1 is not
\* waiting for input
RoundEnd_while_running ==
    /\ fpc.at = "round"
    /\ thruster_signal' = IF (fetch(amps[1], amps[1].ip).code = "Read") THEN signal
                          ELSE thruster_signal
    /\ fpc' = Place("write", 1)
    /\ UNCHANGED <<amps, signal, trace, retval>>
    /\ FeedbackFrame

\* after the for: thruster_signal = signal, and round the outer loop again
RoundEnd ==
    /\ fpc.at = "round"
    /\ thruster_signal' = signal
    /\ fpc' = Place("write", 1)
    /\ UNCHANGED <<amps, signal, trace, retval>>
    /\ FeedbackFrame

\* after the outer loop: thruster_signal is returned
FeedbackReturn ==
    /\ fpc.at = "return"
    /\ retval' = <<thruster_signal>>
    /\ fpc' = Place("done", fpc.amp)
    /\ UNCHANGED <<amps, signal, thruster_signal, trace>>
    /\ FeedbackFrame

FeedbackNext ==
    \/ AmpClone
    \/ AmpWrite
    \/ AmpRun
    \/ AmpRead
    \/ RoundEnd
    \/ FeedbackReturn

FeedbackSpec == FeedbackInit /\ [][FeedbackNext]_vars

-----------------------------------------------------------------------------
(* Two ways to give a program its inputs: all of them written before run(),
   as day07's run_amps does, or one written each time run() has returned
   ReadWait, as day13's ArcadeMachine does *)

MaxInputs == 3
MaxSupplyRun == 16

\* reads two words and writes their sum
AddTwo == <<3, 0, 3, 1, 1, 0, 1, 0, 4, 0, 99>>

\* writes each word it reads, until it reads 0
EchoUntilZero == <<3, 11, 1006, 11, 10, 4, 11, 1105, 1, 0, 99, 0>>

\* writes before, between and after its two reads
Chatty == <<104, 7, 3, 0, 4, 0, 3, 1, 1002, 1, 2, 1, 4, 1, 99>>

SupplyPrograms ==
    {AddTwo, EchoUntilZero, Chatty, <<99>>, <<3, 1, 99>>, <<103, 0, 99>>,
     <<3, -1, 99>>, <<3, 2, 0, 3, 5, 0>>}

SupplyInputs ==
    UNION {[1..n -> {0, 1, 5}] : n \in 0..MaxInputs}

SupplyInit ==
    /\ loaded \in SupplyPrograms
    /\ inputs \in SupplyInputs
    /\ eager = Driven("write", new(loaded), "None", 0)
    /\ lazy = Driven("run", new(loaded), "None", 0)
    /\ emu = new(loaded)
    /\ pc = "idle"
    /\ call = "new"
    /\ state = "None"
    /\ before = "None"
    /\ op = NoOp
    /\ retval = <<>>
    /\ arg = <<>>
    /\ nset = 0
    /\ written = <<>>
    /\ reads = <<>>
    /\ machines = <<>>
    /\ logs = <<>>
    /\ NoText
    /\ NoFeedback
    /\ NoGame

SupplyFrame ==
    UNCHANGED <<emu, pc, call, state, before, op, retval, arg, nset, written,
                reads, loaded, machines, logs, text, parsed, wide, feedback,
                game, inputs>>

\* what a call of run() makes of a driver's emulator: "done" when it returned
\* and the driver has no reason to go on, "write" when it goes on, "dead"
\* when it panicked
Ran(d, r, goes_on) ==
    Driven(IF r.state = "Panic" THEN "dead"
           ELSE IF goes_on THEN "write" ELSE "done",
           r.e, r.state, d.given)

\* for input in inputs { emulator.write(input) }
EagerWrite ==
    /\ eager.at = "write"
    /\ eager.given < Len(inputs)
    /\ eager' = [eager EXCEPT !.e = write(@, inputs[eager.given + 1]),
                              !.given = @ + 1]
    /\ UNCHANGED lazy
    /\ SupplyFrame

\* emulator.run(), once all the inputs are written
EagerRun ==
    /\ eager.at = "write"
    /\ eager.given = Len(inputs)
    /\ \E r \in run(eager.e, MaxSupplyRun) :
            /\ r.state # "Running"
            /\ eager' = Ran(eager, r, FALSE)
    /\ UNCHANGED lazy
    /\ SupplyFrame

\* emulator.run(); the driver goes on when it returned ReadWait and there is
\* an input left to give
LazyRun ==
    /\ lazy.at = "run"
    /\ \E r \in run(lazy.e, MaxSupplyRun) :
            /\ r.state # "Running"
            /\ lazy' = Ran(lazy, r, r.state = "ReadWait"
                                        /\ lazy.given < Len(inputs))
    /\ UNCHANGED eager
    /\ SupplyFrame

\* emulator.write(input), after run() returned ReadWait
LazyWrite ==
    /\ lazy.at = "write"
    /\ lazy' = [lazy EXCEPT !.e = write(@, inputs[lazy.given + 1]),
                            !.given = @ + 1,
                            !.at = "run"]
    /\ UNCHANGED eager
    /\ SupplyFrame

SupplyNext ==
    \/ EagerWrite
    \/ EagerRun
    \/ LazyRun
    \/ LazyWrite

SupplySpec == SupplyInit /\ [][SupplyNext]_vars

----------------------------------------------------------------------------
(* day13's ArcadeMachine *)

Tiles == <<"Empty", "Wall", "Block", "Paddle", "Ball">>

\* Tile::from; "Unrecognised" stands for its panic
Tile_from(v) == IF v \in 0..4 THEN Tiles[v + 1] ELSE "Unrecognised"

\* v as i32: the words of the model are all inside i32, where the cast keeps
\* the value
as_i32(v) == v

min(a, b) == IF a < b THEN a ELSE b

max(a, b) == IF a > b THEN a ELSE b

\* Display::new; points are <<x, y>>, an Option is <<>> or <<p>>
Display_new ==
    [data |-> <<>>, top_left |-> <<0, 0>>, bottom_right |-> <<0, 0>>,
     paddle |-> <<>>, ball |-> <<>>]

\* HashMap::insert
insert(data, k, v) ==
    [q \in DOMAIN data \cup {k} |-> IF q = k THEN v ELSE data[q]]

\* HashMap::remove
remove(data, k) == [q \in DOMAIN data \ {k} |-> data[q]]

\* draw that does not keep where the ball is
draw_forgets_ball(d, x, y, tile) ==
    LET boxed == [d EXCEPT !.top_left = <<min(@[1], x), min(@[2], y)>>,
                           !.bottom_right = <<max(@[1], x), max(@[2], y)>>]
    IN  IF tile = "Empty"
        THEN [boxed EXCEPT !.data = remove(@, <<x, y>>)]
        ELSE [boxed EXCEPT !.data = insert(@, <<x, y>>, tile),
                           !.paddle = IF tile = "Paddle" THEN <<<<x, y>>>>
                                      ELSE @]

\* Display::draw
draw(d, x, y, tile) ==
    LET boxed == [d EXCEPT !.top_left = <<min(@[1], x), min(@[2], y)>>,
                           !.bottom_right = <<max(@[1], x), max(@[2], y)>>]
    IN  IF tile = "Empty"
        THEN [boxed EXCEPT !.data = remove(@, <<x, y>>)]
        ELSE [boxed EXCEPT !.data = insert(@, <<x, y>>, tile),
                           !.paddle = IF tile = "Paddle" THEN <<<<x, y>>>>
                                      ELSE @,
                           !.ball = IF tile = "Ball" THEN <<<<x, y>>>> ELSE @]

signum(v) == IF v > 0 THEN 1 ELSE IF v < 0 THEN -1 ELSE 0

\* the strategy of part2: move the paddle towards the x of the ball
match_ball(a) ==
    IF a.display.ball # <<>> /\ a.display.paddle # <<>>
    THEN signum(a.display.ball[1][1] - a.display.paddle[1][1])
    ELSE 0

\* the functions given as strategy: match_ball, and one that never moves
Strategies == {"match_ball", "stay"}

apply(f, a) == IF f = "match_ball" THEN match_ball(a) ELSE 0

\* a game: the paddle starts at x = 0 and the ball is at x = 2; each turn
\* draws both, reads the joystick, moves the paddle by it and shows its x as
\* the score; the game ends when the paddle is under the ball
Game ==
    <<1, 40, 40, 40, 4, 36, 104, 0, 104, 3, 4, 37, 104, 0, 104, 4, 3, 38,
      1, 36, 38, 36, 104, -1, 104, 0, 4, 36, 8, 36, 37, 39, 1006, 39, 4, 99,
      0, 2, 0, 0, 0>>

\* the programs of the ArcadeMachine: the game; one that draws a wall and a
\* block, clears the block and halts; one that reads the joystick twice; one
\* that emits an unknown tile; one that emits two words only; one with an
\* unknown opcode
ArcadePrograms ==
    { Game,
      <<1, 0, 0, 23, 104, 0, 104, 0, 104, 1, 104, 1, 104, 0, 104, 2,
        104, 1, 104, 0, 104, 0, 99, 0>>,
      <<1, 6, 6, 6, 3, 6, 3, 6, 99>>,
      <<1, 0, 0, 11, 104, 0, 104, 0, 104, 9, 99, 0>>,
      <<1, 0, 0, 9, 104, 1, 104, 2, 99, 0>>,
      <<1, 0, 0, 5, 55, 0>> }

\* ArcadeMachine::from_data_file, and the strategy that run will be given
ArcadeInit ==
    /\ \E p \in ArcadePrograms :
            /\ loaded = p
            /\ arcade = [emulator |-> new(p), display |-> Display_new,
                         score |-> 0]
    /\ strategy \in Strategies
    /\ apc = Locals("new", "None", <<>>, 1, TRUE)
    /\ shown = <<>>
    /\ NoSupply
    /\ emu = new(loaded)
    /\ pc = "idle"
    /\ call = "new"
    /\ state = "None"
    /\ before = "None"
    /\ op = NoOp
    /\ retval = <<>>
    /\ arg = <<>>
    /\ nset = 0
    /\ written = <<>>
    /\ reads = <<>>
    /\ machines = <<>>
    /\ logs = <<>>
    /\ NoText
    /\ NoFeedback

\* what the ArcadeMachine leaves alone
ArcadeFrame ==
    UNCHANGED <<emu, pc, call, state, before, op, retval, arg, nset, written,
                reads, loaded, machines, logs, text, parsed, wide, feedback,
                strategy, supply>>

\* ArcadeMachine::insert_coin, before the game is run
insert_coin ==
    /\ apc.at = "new"
    /\ get(arcade.emulator, 0) # 2
    /\ \E r \in set(arcade.emulator, 0, 2) :
            arcade' = [arcade EXCEPT !.emulator = r.e]
    /\ UNCHANGED <<apc, shown>>
    /\ ArcadeFrame

\* ArcadeMachine::run is entered
ArcadeRun ==
    /\ apc.at = "new"
    /\ apc' = [apc EXCEPT !.at = "step"]
    /\ UNCHANGED <<arcade, shown>>
    /\ ArcadeFrame

\* step: let state = self.emulator.run(), and the read_all() of the for
ArcadeStep ==
    /\ apc.at = "step"
    /\ Len(shown) <= MaxShown
    /\ \E r \in run(arcade.emulator, MaxArcadeRun) :
        /\ r.state # "Running"
        /\ IF r.state = "Panic"
           THEN /\ arcade' = [arcade EXCEPT !.emulator = r.e]
                /\ apc' = [apc EXCEPT !.at = "dead"]
                /\ UNCHANGED shown
           ELSE /\ arcade' = [arcade EXCEPT !.emulator = read_all(r.e).e]
                /\ apc' = Locals("chunks", r.state, read_all(r.e).ret, 1,
                                 apc.ret)
                /\ shown' = shown \o read_all(r.e).ret
    /\ ArcadeFrame

\* step: one iteration of the for over chunks(3); a last chunk of fewer than
\* three words panics at its index 1 or 2, an unknown tile in Tile::from
ArcadeChunk ==
    /\ apc.at = "chunks"
    /\ apc.next <= Len(apc.output)
    /\ LET chunk == SubSeq(apc.output, apc.next,
                           min(apc.next + 2, Len(apc.output)))
       IN  IF Len(chunk) < 3
           THEN apc' = [apc EXCEPT !.at = "dead"] /\ UNCHANGED arcade
           ELSE IF <<chunk[1], chunk[2]>> = <<-1, 0>>
           THEN /\ arcade' = [arcade EXCEPT !.score = chunk[3]]
                /\ apc' = [apc EXCEPT !.next = @ + 3]
           ELSE IF Tile_from(chunk[3]) = "Unrecognised"
           THEN apc' = [apc EXCEPT !.at = "dead"] /\ UNCHANGED arcade
           ELSE /\ arcade' = [arcade EXCEPT !.display =
                                draw(@, as_i32(chunk[1]), as_i32(chunk[2]),
                                     Tile_from(chunk[3]))]
                /\ apc' = [apc EXCEPT !.next = @ + 3]
    /\ UNCHANGED shown
    /\ ArcadeFrame

\* step: the match on state after the for, and the while of run on what step
\* returns
ArcadeMatch ==
    /\ apc.at = "chunks"
    /\ apc.next > Len(apc.output)
    /\ IF apc.state = "ReadWait"
       THEN /\ arcade' = [arcade EXCEPT !.emulator =
                            write(@, apply(strategy, arcade))]
            /\ apc' = [apc EXCEPT !.at = "step", !.ret = TRUE]
       ELSE /\ apc' = [apc EXCEPT !.at = "done", !.ret = FALSE]
            /\ UNCHANGED arcade
    /\ UNCHANGED shown
    /\ ArcadeFrame

ArcadeNext ==
    \/ insert_coin
    \/ ArcadeRun
    \/ ArcadeStep
    \/ ArcadeChunk
    \/ ArcadeMatch

ArcadeSpec == ArcadeInit /\ [][ArcadeNext]_vars

\* the program of day09's tests::test_example_1
Quine ==
    <<109, 1, 204, -1, 1001, 100, 1, 100, 1008, 100, 16, 101, 1006, 101, 0, 99>>

Day09Init == Constructed({Quine})

\* the test's driver, with no input to give: it steps or runs the emulator
Day09Step ==
    /\ pc = "idle"
    /\ SteppingFreely(FALSE)
    /\ call' = "step"
    /\ retval' = <<>>
    /\ arg' = <<>>
    /\ UNCHANGED <<nset, written, others>>

Day09RunLoop ==
    /\ pc = "run"
    /\ SteppingFreely(TRUE)
    /\ UNCHANGED <<call, retval, arg, nset, written, others>>

Day09Next ==
    \/ Day09Step
    \/ CallRun
    \/ Day09RunLoop

\* run's loop has no exit but its return: once entered it keeps stepping
Day09Spec == Day09Init /\ [][Day09Next]_vars /\ WF_vars(Day09RunLoop)

\* run's loop has no exit but its return: once entered it keeps stepping
FairSpec == RunInit /\ [][Next]_vars /\ WF_vars(RunLoop)

----------------------------------------------------------------------------
(* Word = i64: a word as its eight bytes, least significant first, in two's
   complement *)

WordBytes == 8
Radix == 256

\* the Word of an integer literal small enough to be written here
Small(n) ==
    [i \in 1..WordBytes |->
        IF i <= 4 THEN (n \div Radix^(i - 1)) % Radix
        ELSE IF n < 0 THEN Radix - 1 ELSE 0]

is_negative(w) == w[Len(w)] >= Radix \div 2

\* w as i128
extend(w) ==
    w \o [i \in 1..WordBytes |-> IF is_negative(w) THEN Radix - 1 ELSE 0]

\* the carry into byte k when the column sums cols are brought back to bytes
RECURSIVE carry(_, _)
carry(cols, k) ==
    IF k = 1 THEN 0 ELSE (cols[k - 1] + carry(cols, k - 1)) \div Radix

\* the bytes of the column sums cols, modulo Radix^Len(cols)
propagate(cols) ==
    [k \in 1..Len(cols) |-> (cols[k] + carry(cols, k)) % Radix]

\* the products of the bytes of a and b that weigh Radix^(k - 1), from the
\* one with a[i] on
RECURSIVE column(_, _, _, _)
column(a, b, k, i) ==
    IF i > k THEN 0 ELSE a[i] * b[k + 1 - i] + column(a, b, k, i + 1)

\* a + b modulo Radix^Len(a)
add_bytes(a, b) == propagate([k \in 1..Len(a) |-> a[k] + b[k]])

\* a * b modulo Radix^Len(a)
mul_bytes(a, b) == propagate([k \in 1..Len(a) |-> column(a, b, k, 1)])

wrapping_add(a, b) == add_bytes(a, b)

wrapping_mul(a, b) == mul_bytes(a, b)

add_overflows(a, b) ==
    /\ is_negative(a) = is_negative(b)
    /\ is_negative(wrapping_add(a, b)) # is_negative(a)

\* the product as i128 is not the i64 product sign-extended
mul_overflows(a, b) ==
    mul_bytes(extend(a), extend(b)) # extend(wrapping_mul(a, b))

\* Option<Word> and Result<Word, ParseIntError> as the set of the words
\* they hold: None and Err hold no word
None == {}

Some(w) == {w}

checked_add(a, b) ==
    IF add_overflows(a, b) THEN None ELSE Some(wrapping_add(a, b))

checked_mul(a, b) ==
    IF mul_overflows(a, b) THEN None ELSE Some(wrapping_mul(a, b))

\* what an arithmetic operator of step() gives: on overflow a panic where
\* the build checks overflow, the wrapped word where it does not
Arith(overflows, wrapped) ==
    IF overflows
    THEN {[panic |-> TRUE, word |-> NoWord], [panic |-> FALSE, word |-> wrapped]}
    ELSE {[panic |-> FALSE, word |-> wrapped]}

i64_mul_as_i32(a, b) ==
    Arith(FALSE, LET w == wrapping_mul(a, b)
                 IN  [i \in 1..WordBytes |->
                        IF i <= 4 THEN w[i]
                        ELSE IF w[4] >= Radix \div 2 THEN Radix - 1 ELSE 0])

\* value(a) + value(b)
i64_add(a, b) == Arith(add_overflows(a, b), wrapping_add(a, b))

\* value(a) * value(b)
i64_mul(a, b) == Arith(mul_overflows(a, b), wrapping_mul(a, b))

----------------------------------------------------------------------------
(* Program::from_str *)

Digits == <<"0", "1", "2", "3", "4", "5", "6", "7", "8", "9">>

is_digit(c) == \E d \in 1..10 : Digits[d] = c

to_digit(c) == (CHOOSE d \in 1..10 : Digits[d] = c) - 1

\* the digits of x.parse::<Word>() after the sign, folded from the left with
\* checked arithmetic: added for a positive token, subtracted for a negative
RECURSIVE from_digits(_, _, _)
from_digits(acc, digits, positive) ==
    IF digits = <<>> THEN Some(acc)
    ELSE IF ~is_digit(digits[1]) THEN None
    ELSE LET d == to_digit(digits[1])
         IN  UNION { UNION { from_digits(r, Tail(digits), positive) :
                        r \in checked_add(m, Small(IF positive THEN d
                                                   ELSE -d)) } :
                     m \in checked_mul(acc, Small(10)) }

\* x.parse::<Word>(): an optional sign and at least one digit
parse(x) ==
    IF x = <<>> THEN None
    ELSE LET signed == x[1] \in {"+", "-"}
             digits == IF signed THEN Tail(x) ELSE x
         IN  IF digits = <<>> THEN None
             ELSE from_digits(Small(0), digits, x[1] # "-")

\* Result::unwrap() where there is a word
unwrap(r) == CHOOSE w \in r : TRUE

\* s.split(","): the pieces between the commas, empty pieces included
RECURSIVE split(_)
split(s) ==
    IF \A i \in 1..Len(s) : s[i] # ","
    THEN <<s>>
    ELSE LET i == CHOOSE j \in 1..Len(s) :
                    s[j] = "," /\ \A k \in 1..(j - 1) : s[k] # ","
         IN  <<SubSeq(s, 1, i - 1)>> \o split(SubSeq(s, i + 1, Len(s)))

\* s.parse::<Program>(): every piece is parsed and unwrapped
from_str(s) ==
    LET code == [i \in 1..Len(split(s)) |-> parse(split(s)[i])]
    IN  IF \E i \in 1..Len(code) : code[i] = None
        THEN [result |-> "Panic", code |-> <<>>]
        ELSE [result |-> "Ok",
              code |-> [i \in 1..Len(code) |-> unwrap(code[i])]]

----------------------------------------------------------------------------
(* Parsing program text and operating on the 64-bit words it gives *)

Alphabet == {"1", "7", "-", "+", ",", " ", "x"}

\* every text of at most MaxText characters
ShortTexts == UNION {[1..n -> Alphabet] : n \in 0..MaxText}

BigTokens ==
    { <<"0">>, <<"-", "1">>, <<"6", "5", "5", "3", "6">>,
      <<"3", "4", "9", "1", "5", "1", "9", "2">>,
      <<"-", "3", "4", "9", "1", "5", "1", "9", "2">>,
      <<"2", "1", "4", "7", "4", "8", "3", "6", "4", "7">>,
      <<"3", "0", "3", "7", "0", "0", "0", "5", "0", "0">>,
      <<"1", "1", "2", "5", "8", "9", "9", "9", "0", "6", "8", "4", "2",
        "6", "2", "4">>,
      <<"9", "2", "2", "3", "3", "7", "2", "0", "3", "6", "8", "5", "4",
        "7", "7", "5", "8", "0", "7">>,
      <<"9", "2", "2", "3", "3", "7", "2", "0", "3", "6", "8", "5", "4",
        "7", "7", "5", "8", "0", "8">>,
      <<"-", "9", "2", "2", "3", "3", "7", "2", "0", "3", "6", "8", "5",
        "4", "7", "7", "5", "8", "0", "8">>,
      <<"-", "9", "2", "2", "3", "3", "7", "2", "0", "3", "6", "8", "5",
        "4", "7", "7", "5", "8", "0", "9">> }

Texts ==
    ShortTexts \cup BigTokens
        \cup {a \o <<",">> \o b : a \in BigTokens, b \in BigTokens}

TextFrame ==
    UNCHANGED <<emu, pc, call, state, before, op, retval, arg, nset, written,
                reads, loaded, machines, logs, feedback, game,
                supply>>

TextInit ==
    /\ loaded = <<99>> /\ emu = new(loaded)
    /\ pc = "idle"
    /\ call = "new"
    /\ state = "None"
    /\ before = "None"
    /\ op = NoOp
    /\ retval = <<>>
    /\ arg = <<>>
    /\ nset = 0
    /\ written = <<>>
    /\ reads = <<>>
    /\ machines = <<>>
    /\ logs = <<>>
    /\ text \in Texts
    /\ parsed = NotParsed
    /\ wide = NoWide
    /\ NoFeedback
    /\ NoGame
    /\ NoSupply

\* let program: Program = text.parse()
FromStr ==
    /\ parsed = NotParsed
    /\ parsed' = from_str(text)
    /\ UNCHANGED <<text, wide>>
    /\ TextFrame

\* Add(a, b, c) on the first two words as immediates: value(a) + value(b)
WideAdd ==
    /\ parsed.result = "Ok" /\ Len(parsed.code) >= 2 /\ wide = NoWide
    /\ \E r \in i64_add(parsed.code[1], parsed.code[2]) :
            wide' = [op |-> "Add", panic |-> r.panic, word |-> r.word]
    /\ UNCHANGED <<text, parsed>>
    /\ TextFrame

\* Mul(a, b, c) on the first two words as immediates: value(a) * value(b)
WideMul ==
    /\ parsed.result = "Ok" /\ Len(parsed.code) >= 2 /\ wide = NoWide
    /\ \E r \in i64_mul(parsed.code[1], parsed.code[2]) :
            wide' = [op |-> "Mul", panic |-> r.panic, word |-> r.word]
    /\ UNCHANGED <<text, parsed>>
    /\ TextFrame

\* Write(a) on the first word as immediate, then read(): the word itself
WideWrite ==
    /\ parsed.result = "Ok" /\ wide = NoWide
    /\ wide' = [op |-> "Write", panic |-> FALSE, word |-> parsed.code[1]]
    /\ UNCHANGED <<text, parsed>>
    /\ TextFrame

TextNext == FromStr \/ WideAdd \/ WideMul \/ WideWrite

TextSpec == TextInit /\ [][TextNext]_vars

----------------------------------------------------------------------------
(* Vocabulary of the properties *)

\* this transition is one call of step(), by the driver or by run's loop
Stepped == pc = "run" \/ (pc = "idle" /\ call' = "step")

\* this transition is one call of step() that returned (did not panic)
Returned == Stepped /\ pc' # "dead"

Decoded == fetch(emu, emu.ip)

\* the instruction at ip is a Read and no input is queued
ReadBlocked(e) == fetch(e, e.ip).code = "Read" /\ e.input_buffer = <<>>

AtHalt(e) == fetch(e, e.ip).code = "Halt"

Addresses == -1..(MaxMem + 1)

\* the addresses of the cells of memory, and one before and one after them
Cells(e) == -1..Len(e.memory)

\* memory read as the infinite zero-extended array it stands for
SameMemoryExcept(e1, e2, S) ==
    \A j \in Addresses \ S : get(e1, j) = get(e2, j)

----------------------------------------------------------------------------
(* C1: a step() at a Read with the input queue empty returns ReadWait and
   leaves the whole machine (memory, ip, sp, both queues) as it was; and as
   long as nothing is written (and no set() patches the program) the machine
   stays at that starved Read, so every repeated step() or run() returns
   ReadWait again. *)
C1_ReadWaitFrame ==
    [][ /\ (Stepped /\ ReadBlocked(emu))
            => (state' = "ReadWait" /\ pc' = "idle" /\ emu' = emu)
        /\ (ReadBlocked(emu) /\ call' \notin {"write", "set"})
            => ReadBlocked(emu')
      ]_vars

\* a step() returned ReadWait right after a ReadWait
C1_Witness ==
    /\ call \in {"step", "run"} /\ pc = "idle"
    /\ before = "ReadWait" /\ state = "ReadWait"
    /\ op.code = "Read" /\ ReadBlocked(emu)

(* C2: the first step() after a ReadWait, once an input v is queued, executes
   the suspended Read once: v is stored at the Read's target address (memory
   grown to hold it, no other cell changed), v leaves the input queue, ip
   advances by 2 and Continue is returned. *)
C2_ResumeReadOnce ==
    [][ (Returned /\ state = "ReadWait" /\ Decoded.code = "Read"
            /\ emu.input_buffer # <<>>)
        => LET t == Address(emu, Decoded.params[1])
               v == Head(emu.input_buffer)
           IN  /\ state' = "Continue"
               /\ get(emu', t) = v
               /\ SameMemoryExcept(emu', emu, {t})
               /\ Len(emu'.memory) = IF t < Len(emu.memory)
                                     THEN Len(emu.memory) ELSE t + 1
               /\ emu'.input_buffer = Tail(emu.input_buffer)
               /\ emu'.ip = emu.ip + 2
               /\ emu'.sp = emu.sp
               /\ emu'.output_buffer = emu.output_buffer
      ]_vars

\* the first step() after a ReadWait executed the Read
C2_Witness ==
    /\ call = "step" /\ before = "ReadWait" /\ state = "Continue"
    /\ op.code = "Read" /\ emu.memory = <<5, 0, 4, 0, 99>> /\ emu.ip = 2

(* C3: when step() or run() returns Halt the machine is at a Halt
   instruction, and from then on, whatever write(), read(), read_all(), get(),
   step() or run() calls follow, memory, ip and sp never change, and every
   step() (of the driver or of run()) returns Halt again and changes neither
   queue. *)
C3_HaltTerminal ==
    [][ /\ (Returned /\ state' = "Halt") => AtHalt(emu')
        /\ (state = "Halt" /\ AtHalt(emu) /\ call' # "set")
            => /\ state' = "Halt" /\ AtHalt(emu')
               /\ emu'.memory = emu.memory
               /\ emu'.ip = emu.ip
               /\ emu'.sp = emu.sp
               /\ Stepped => (emu' = emu /\ pc' = "idle")
      ]_vars

\* a step() returned Halt after an earlier Halt
C3_Witness ==
    /\ call \in {"step", "run"} /\ pc = "idle"
    /\ before = "Halt" /\ state = "Halt" /\ op.code = "Halt"

(* C4: every iteration of run()'s loop is one step(); run() stays in its loop
   exactly while step() returns Continue and returns what the first other
   step() returned, Halt or ReadWait, with the machine as that step left it:
   run() never returns Continue. *)
C4_RunIsStepLoop ==
    [][ pc = "run"
        => \E r \in step(emu) :
            /\ emu' = r.e
            /\ r.state = "Continue" => pc' = "run"
            /\ r.state = "Panic" => pc' = "dead"
            /\ r.state \in {"Halt", "ReadWait"}
                => (pc' = "idle" /\ state' = r.state /\ call' = "run")
            /\ pc' = "idle" => state' \in {"Halt", "ReadWait"}
      ]_vars

\* run() returned after executing at least one instruction
C4_Witness ==
    /\ call = "run" /\ pc = "idle"
    /\ before = "Continue" /\ state \in {"Halt", "ReadWait"}

(* C5: a step() returns ReadWait only when the instruction at ip is a Read
   and the input queue is empty. *)
C5_OnlySuspension ==
    [][ (Returned /\ state' = "ReadWait") => ReadBlocked(emu) ]_vars

\* run() executed instructions and was then suspended at a Read
C5_Witness ==
    /\ call = "run" /\ pc = "idle"
    /\ before = "Continue" /\ state = "ReadWait" /\ op.code = "Read"

\* the next step() stays inside the part of the state space the model follows
StepInRange == \E r \in step(emu) : r.state = "Panic" \/ InRange(r.e)

(* C6, as claimed: every call of run() eventually returns (or ends in a
   panic); a run whose next step leaves the range of the model is not held
   against the claim.  Refuted by a program that jumps to itself. *)
C6_RunAlwaysReturns ==
    [](pc = "run" => <>(pc # "run" \/ ~StepInRange))

(* C6, amended: run() never waits inside its loop: the iteration that finds
   a Halt, or a Read with the input queue empty, returns to the driver with
   Halt or ReadWait, and run() stays in its loop only on a step that returned
   Continue.  (A program that reaches neither keeps run() running.) *)
C6_RunReturnsAtHaltOrStarvedRead ==
    [][ /\ (pc = "run" /\ (AtHalt(emu) \/ ReadBlocked(emu)))
            => /\ pc' = "idle" /\ call' = "run"
               /\ state' = IF AtHalt(emu) THEN "Halt" ELSE "ReadWait"
        /\ (pc = "run" /\ pc' = "run") => state' = "Continue"
      ]_vars

\* run() returned ReadWait from a program that never halts
C6_Witness ==
    /\ call = "run" /\ pc = "idle" /\ state = "ReadWait"
    /\ before = "Continue"
    /\ emu.memory[5] = 1105 /\ emu.ip = 0

\* the words 1002, 4, 3, 4 stand at pos
Has1002(e, pos) ==
    /\ get(e, pos) = 1002
    /\ get(e, pos + 1) = 4
    /\ get(e, pos + 2) = 3
    /\ get(e, pos + 3) = 4

(* C7, as claimed: decoding the word 1002 followed by 4, 3, 4 yields
   Add(Position(4), Immediate(3), Position(4)). *)
C7_Decodes1002AsAdd ==
    \A pos \in Cells(emu) :
        Has1002(emu, pos)
        => fetch(emu, pos) =
            [code |-> "Add",
             params |-> <<[mode |-> "Position", v |-> 4],
                          [mode |-> "Immediate", v |-> 3],
                          [mode |-> "Position", v |-> 4]>>]

(* C7, amended: decoding the word 1002 followed by 4, 3, 4 yields
   Mul(Position(4), Immediate(3), Position(4)): the opcode 1002 mod 100 is 2,
   Multiply. *)
C7_Decodes1002AsMul ==
    \A pos \in Cells(emu) :
        Has1002(emu, pos)
        => fetch(emu, pos) =
            [code |-> "Mul",
             params |-> <<[mode |-> "Position", v |-> 4],
                          [mode |-> "Immediate", v |-> 3],
                          [mode |-> "Position", v |-> 4]>>]

\* step() decoded 1002, 4, 3, 4 at address 0 and multiplied 33 by 3
C7_Witness ==
    /\ call = "step" /\ state = "Continue"
    /\ op.code = "Mul" /\ Len(op.params) = 3
    /\ Has1002(emu, 0)
    /\ emu.memory = <<1002, 4, 3, 4, 99>>

\* the opcode table: mnemonic and arity of the ten opcodes
Opcodes == {1, 2, 3, 4, 5, 6, 7, 8, 9, 99}

Mnemonic(opcode) ==
    CASE opcode = 1 -> "Add"
      [] opcode = 2 -> "Mul"
      [] opcode = 3 -> "Read"
      [] opcode = 4 -> "Write"
      [] opcode = 5 -> "JumpIfTrue"
      [] opcode = 6 -> "JumpIfFalse"
      [] opcode = 7 -> "LessThan"
      [] opcode = 8 -> "Equal"
      [] opcode = 9 -> "AdjustBase"
      [] opcode = 99 -> "Halt"

Arity(opcode) ==
    CASE opcode \in {1, 2, 7, 8} -> 3
      [] opcode \in {5, 6} -> 2
      [] opcode \in {3, 4, 9} -> 1
      [] opcode = 99 -> 0

ModeName(digit) ==
    CASE digit = 0 -> "Position"
      [] digit = 1 -> "Immediate"
      [] digit = 2 -> "Relative"

\* the k-th decimal digit of w >= 0, counted from 0 at the least significant
Digit(w, k) == (w \div (10 ^ k)) % 10

\* the word w is an instruction: a known opcode and, for each parameter of
\* that opcode, a mode digit in 0..2
WellFormed(w) ==
    /\ w > 0
    /\ (w % 100) \in Opcodes
    /\ \A i \in 1..Arity(w % 100) : Digit(w, i + 1) \in {0, 1, 2}

(* C8: at every address, a word w that is an instruction is decoded by fetch
   as the opcode w mod 100, with one parameter per place of the opcode's
   arity; parameter i has the mode of the i-th least significant decimal
   digit of w div 100 (0 Position, 1 Immediate, 2 Relative; an absent digit
   is 0) and the value of the word at the address + i.  Every other word
   makes fetch panic. *)
C8_FetchDecodes ==
    \A pos \in Cells(emu) :
        LET w == get(emu, pos)
        IN  IF WellFormed(w)
            THEN fetch(emu, pos) =
                    [code |-> Mnemonic(w % 100),
                     params |-> [i \in 1..Arity(w % 100) |->
                        [mode |-> ModeName(Digit(w \div 100, i - 1)),
                         v |-> get(emu, pos + i)]]]
            ELSE fetch(emu, pos).code \in {"PanicOpcode", "PanicMode"}

\* step() decoded an instruction with three different modes: Relative target,
\* Immediate operands
C8_Witness ==
    /\ call = "step" /\ pc = "idle" /\ state = "Continue"
    /\ op.code = "Add"
    /\ op.params[1].mode = "Immediate"
    /\ op.params[3].mode = "Relative"
    /\ get(emu, emu.ip - 4) = 21101
    /\ op.params[3].v = get(emu, emu.ip - 1)

(* C9: a step() that decodes JumpIfTrue with value(a) # 0, or JumpIfFalse
   with value(a) = 0, sets ip to value(b) exactly; otherwise it advances ip by
   3; either way it returns Continue and memory, sp and both queues are
   unchanged. *)
C9_Jumps ==
    [][ (Stepped /\ Decoded.code \in {"JumpIfTrue", "JumpIfFalse"})
        => LET a == Decoded.params[1]
               b == Decoded.params[2]
               taken == IF Decoded.code = "JumpIfTrue"
                        THEN value(emu, a) # 0
                        ELSE value(emu, a) = 0
           IN  /\ pc' # "dead"
               /\ state' = "Continue"
               /\ emu'.ip = IF taken THEN value(emu, b) ELSE emu.ip + 3
               /\ emu'.memory = emu.memory
               /\ emu'.sp = emu.sp
               /\ emu'.input_buffer = emu.input_buffer
               /\ emu'.output_buffer = emu.output_buffer
      ]_vars

\* step() took a JumpIfTrue to an address other than the next instruction
C9_Witness ==
    /\ call = "step" /\ state = "Continue"
    /\ op.code = "JumpIfTrue"
    /\ value(emu, op.params[1]) # 0
    /\ emu.ip = value(emu, op.params[2])
    /\ emu.memory = <<5, 0, 4, 99, 3>> /\ emu.ip = 3

(* C10: a step() that decodes Add, Multiply, LessThan, Equal, Write or
   AdjustBase, or a Read while an input is queued, and returns, returns
   Continue with ip advanced by 4 (Add, Multiply, LessThan, Equal) or by 2
   (Read, Write, AdjustBase). *)
C10_AdvanceBySize ==
    [][ (Returned
            /\ \/ Decoded.code \in {"Add", "Mul", "LessThan", "Equal",
                                    "Write", "AdjustBase"}
               \/ Decoded.code = "Read" /\ emu.input_buffer # <<>>)
        => /\ state' = "Continue"
           /\ emu'.ip = emu.ip +
                (IF Decoded.code \in {"Add", "Mul", "LessThan", "Equal"}
                 THEN 4 ELSE 2)
      ]_vars

\* step() executed a Write and moved on by 2
C10_Witness ==
    /\ call = "step" /\ state = "Continue"
    /\ op.code = "Write"
    /\ emu.output_buffer # <<>>
    /\ emu.ip = 4 /\ get(emu, 2) = 4

\* the word an Add, Mul, LessThan or Equal with operands x and y stores
Result(code, x, y) ==
    CASE code = "Add" -> x + y
      [] code = "Mul" -> x * y
      [] code = "LessThan" -> IF x < y THEN 1 ELSE 0
      [] code = "Equal" -> IF x = y THEN 1 ELSE 0

(* C11: a step() that decodes Add, Mul, LessThan or Equal and returns stores
   at the address of parameter c the sum, the product, 1 or 0 for
   value(a) < value(b), 1 or 0 for value(a) = value(b), the operands being
   those of the memory before the store (c may name the cell of a or b); no
   other cell of memory changes, nor sp, nor either queue. *)
C11_Arithmetic ==
    [][ (Returned /\ Decoded.code \in {"Add", "Mul", "LessThan", "Equal"})
        => LET a == Decoded.params[1]
               b == Decoded.params[2]
               t == Address(emu, Decoded.params[3])
           IN  /\ get(emu', t) =
                    Result(Decoded.code, value(emu, a), value(emu, b))
               /\ SameMemoryExcept(emu', emu, {t})
               /\ emu'.sp = emu.sp
               /\ emu'.input_buffer = emu.input_buffer
               /\ emu'.output_buffer = emu.output_buffer
      ]_vars

\* step() multiplied the words at 3 and 0 into the cell at 3, one of its
\* operands
C11_Witness ==
    /\ call = "step" /\ state = "Continue"
    /\ op = Op("Mul", <<Position(3), Position(0), Position(3)>>)
    /\ emu.memory = <<2, 3, 0, 6, 99>>

(* C12, as claimed: get(address) and set(address, value) called with a
   negative address fail: the call panics, neither returning a value nor
   storing.  Refuted by get(-1), which returns 0: the index -1 cast to usize
   is beyond every length, and get answers 0 beyond the length. *)
C12_NegativeAddressFails ==
    (call \in {"get", "set"} /\ arg[1] < 0) => pc = "dead"

\* the parameters a step() of e that decodes o resolves, through value or
\* pointer
Resolved(e, o) ==
    LET p == o.params
    IN  CASE o.code \in {"Add", "Mul", "LessThan", "Equal"} -> {p[1], p[2], p[3]}
          [] o.code = "Read" -> IF e.input_buffer = <<>> THEN {} ELSE {p[1]}
          [] o.code \in {"Write", "AdjustBase"} -> {p[1]}
          [] o.code = "JumpIfTrue" ->
                IF value(e, p[1]) # 0 THEN {p[1], p[2]} ELSE {p[1]}
          [] o.code = "JumpIfFalse" ->
                IF value(e, p[1]) = 0 THEN {p[1], p[2]} ELSE {p[1]}
          [] OTHER -> {}

\* a parameter the step resolves is Position or Relative and names an
\* address below 0
ResolvesNegative(e, o) ==
    \E param \in Resolved(e, o) :
        param.mode \in {"Position", "Relative"} /\ Address(e, param) < 0

(* C13, as claimed: a step() of an instruction one of whose Position or
   Relative parameters resolves to a negative address panics, whether the
   parameter is read as an operand or written as a target.  Refuted by the
   Write of 4,-1,99, whose operand at address -1 reads as 0. *)
C13_NegativeAddressFatal ==
    [][ (Stepped /\ ResolvesNegative(emu, Decoded)) => pc' = "dead" ]_vars

(* C14: get(address) with address >= 0 returns the stored word when address
   is below the length of memory and 0 otherwise; it does not fail, and
   memory (contents and length), ip, sp and both queues are as before. *)
C14_GetReads ==
    [][ (call' = "get" /\ arg'[1] >= 0)
        => /\ pc' = "idle"
           /\ retval' = <<IF arg'[1] < Len(emu.memory)
                          THEN emu.memory[arg'[1] + 1]
                          ELSE 0>>
           /\ emu' = emu
      ]_vars

\* get(7) returned the input a Read had stored at address 7, the last cell
C14_Witness ==
    /\ call = "get" /\ pc = "idle"
    /\ arg = <<7>> /\ retval = <<5>>
    /\ emu.memory = <<3, 7, 4, 7, 1105, 1, 0, 5>>

\* m2 is m after a store at address t >= 0: as long as m, or grown to hold t
\* with the new cells other than t zero; the cells of m other than t are kept
StoredAt(m, m2, t) ==
    /\ Len(m2) = IF t < Len(m) THEN Len(m) ELSE t + 1
    /\ \A i \in 1..Len(m2) :
          i # t + 1 => m2[i] = IF i <= Len(m) THEN m[i] ELSE 0

\* the parameter a step() of e that decodes o stores through, if any
Targets(e, o) ==
    CASE o.code \in {"Add", "Mul", "LessThan", "Equal"} -> {o.params[3]}
      [] o.code = "Read" -> IF e.input_buffer = <<>> THEN {} ELSE {o.params[1]}
      [] OTHER -> {}

(* C15: set(address, v) with address >= 0 does not fail; memory grows to
   length address + 1 when address is at or beyond its length, the new cells
   other than address being 0, address then holds v, every other cell that
   existed keeps its word, and ip, sp and both queues are as before.  A
   step() that stores through a Position or Relative target and returns
   grows memory in the same way. *)
C15_SetGrows ==
    [][ /\ (call' = "set" /\ arg'[1] >= 0)
            => /\ pc' = "idle"
               /\ StoredAt(emu.memory, emu'.memory, arg'[1])
               /\ emu'.memory[arg'[1] + 1] = arg'[2]
               /\ emu'.ip = emu.ip
               /\ emu'.sp = emu.sp
               /\ emu'.input_buffer = emu.input_buffer
               /\ emu'.output_buffer = emu.output_buffer
        /\ Returned
            => \A c \in Targets(emu, Decoded) :
                StoredAt(emu.memory, emu'.memory, Address(emu, c))
      ]_vars

\* set(7, 2) grew a memory of five cells to eight
C15_Witness ==
    /\ call = "set" /\ pc = "idle"
    /\ arg = <<7, 2>>
    /\ emu.memory = <<3, 0, 4, 0, 99, 0, 0, 2>>

\* the word at address addr >= 0 of memory, 0 beyond its end
Cell(e, addr) == IF addr < Len(e.memory) THEN e.memory[addr + 1] ELSE 0

\* the parameter is Immediate or names an address that is not negative
Readable(e, param) == param.mode = "Immediate" \/ Address(e, param) >= 0

\* what a Readable parameter reads as
Operand(e, param) ==
    IF param.mode = "Immediate" THEN param.v ELSE Cell(e, Address(e, param))

(* C16: in a step() that returns, a Relative parameter r stands for the
   address sp + r and a Position parameter p for the address p, both as an
   operand (it reads as the word at that address, 0 beyond the end of memory)
   and as the target of a store; an Immediate parameter v reads as v.  Seen
   in what the step does with its operands: Write emits the operand,
   AdjustBase adds it to sp, Add, Mul, LessThan and Equal store the result of
   their two operands at the target's address, Read stores the input there.
   Operands at a negative address are left out (C13). *)
C16_Resolution ==
    [][ Returned
        => LET o == Decoded
               p == o.params
           IN  /\ (o.code = "Write" /\ Readable(emu, p[1]))
                    => emu'.output_buffer =
                         Append(emu.output_buffer, Operand(emu, p[1]))
               /\ (o.code = "AdjustBase" /\ Readable(emu, p[1]))
                    => emu'.sp = emu.sp + Operand(emu, p[1])
               /\ (o.code \in {"Add", "Mul", "LessThan", "Equal"}
                        /\ Readable(emu, p[1]) /\ Readable(emu, p[2]))
                    => emu'.memory[Address(emu, p[3]) + 1] =
                         Result(o.code, Operand(emu, p[1]), Operand(emu, p[2]))
               /\ (o.code = "Read" /\ emu.input_buffer # <<>>)
                    => emu'.memory[Address(emu, p[1]) + 1] =
                         Head(emu.input_buffer)
      ]_vars

\* with sp = 1, a Read stored the input 5 at sp + 2 = 3 and a Write emitted
\* the word at sp + 2
C16_Witness ==
    /\ call = "step" /\ state = "Continue"
    /\ op = Op("Write", <<Relative(2)>>)
    /\ emu.sp = 1
    /\ emu.memory = <<109, 1, 203, 5, 204, 2, 99>>
    /\ emu.output_buffer = <<5>>

(* C17: sp is 0 after construction; a step() that decodes AdjustBase adds
   value(a) to sp; no other step, whether it returns or panics, and no call
   of get, set, write, read, read_all or run's entry changes sp. *)
C17_OnlyAdjustBase ==
    [][ /\ call = "new" => emu.sp = 0
        /\ emu'.sp = IF Stepped /\ Decoded.code = "AdjustBase"
                     THEN emu.sp + value(emu, Decoded.params[1])
                     ELSE emu.sp
      ]_vars

\* a second AdjustBase added the word at sp + 4 to sp = 1
C17_Witness ==
    /\ call = "step" /\ state = "Continue"
    /\ op = Op("AdjustBase", <<Relative(4)>>)
    /\ emu.sp = 3 /\ emu.ip = 4

(* C18: the values passed to write() are consumed by the Reads in the order
   of the calls, each once: at every moment the values written so far are
   the words the executed Reads stored at their targets, in order, followed
   by the input queue (so the k-th executed Read stored the k-th written
   value).  write(v) appends v to the input queue and changes nothing else
   of the machine, whatever step() or run() returned last (nothing yet,
   Continue, ReadWait or Halt). *)
C18_WrittenInOrder ==
    [][ /\ pc' # "dead" => written' = reads' \o emu'.input_buffer
        /\ call' = "write"
            => /\ emu' = [emu EXCEPT !.input_buffer = Append(@, arg'[1])]
               /\ pc' = "idle"
               /\ state' = state
      ]_vars

\* 0 was written before the first step, 5 while the machine waited at its
\* second Read; the two Reads stored 0 at address 0 and 5 at address 1
C18_Witness ==
    /\ call = "step" /\ state = "Continue" /\ before = "ReadWait"
    /\ op = Op("Read", <<Position(1)>>)
    /\ written = <<0, 5>> /\ reads = <<0, 5>>
    /\ emu.memory = <<0, 5, 3, 1, 4, 0, 4, 1, 99>>

(* C19: a step() that decodes Write and returns appends value(a) to the tail
   of the output queue and advances ip by 2; memory (contents and length),
   sp and the input queue are as before.  When the operand names an address
   at or beyond the end of memory the word emitted is 0 and memory does not
   grow. *)
C19_WriteEmits ==
    [][ (Returned /\ Decoded.code = "Write")
        => LET a == Decoded.params[1]
           IN  /\ emu'.ip = emu.ip + 2
               /\ emu'.output_buffer =
                    Append(emu.output_buffer, value(emu, a))
               /\ (a.mode # "Immediate" /\ Address(emu, a) >= Len(emu.memory))
                    => emu'.output_buffer = Append(emu.output_buffer, 0)
               /\ emu'.memory = emu.memory
               /\ emu'.sp = emu.sp
               /\ emu'.input_buffer = emu.input_buffer
      ]_vars

\* a Write of the word at address 9 of a memory of three cells emitted 0
C19_Witness ==
    /\ call = "step" /\ state = "Continue"
    /\ op = Op("Write", <<Position(9)>>)
    /\ emu.memory = <<4, 9, 99>>
    /\ emu.output_buffer = <<0>>
    /\ emu.ip = 2

(* C20: read() removes the oldest word of the output queue and returns it, or
   returns nothing and changes nothing when the queue is empty; read_all()
   returns the whole output queue, oldest first, and leaves it empty; neither
   changes memory, ip, sp or the input queue, and neither fails. *)
C20_ReadDrains ==
    [][ /\ call' = "read"
            => /\ pc' = "idle"
               /\ IF emu.output_buffer = <<>>
                  THEN retval' = <<>> /\ emu' = emu
                  ELSE /\ retval' = <<Head(emu.output_buffer)>>
                       /\ emu' = [emu EXCEPT !.output_buffer = Tail(@)]
        /\ call' = "read_all"
            => /\ pc' = "idle"
               /\ retval' = emu.output_buffer
               /\ emu' = [emu EXCEPT !.output_buffer = <<>>]
      ]_vars

\* the program emitted 0 and then 5; read() returned 0 and left 5 queued
C20_Witness ==
    /\ call = "read" /\ pc = "idle"
    /\ retval = <<0>>
    /\ emu.output_buffer = <<5>>
    /\ emu.memory = <<0, 5, 3, 1, 4, 0, 4, 1, 99>>

(* C27: a step() panics, returning no State and leaving memory, ip, sp and
   both queues as they were, whenever the opcode of the word at ip (the
   remainder of its division by 100, of the sign of the word) is none of 1..9
   and 99; the word 0 read at or beyond the end of memory is such a word, so
   a program that runs off its end panics and does not halt. *)
C27_UnknownOpcodePanics ==
    [][ (Stepped /\ rem(get(emu, emu.ip), 100) \notin Opcodes)
        => /\ pc' = "dead"
           /\ state' = "None"
           /\ emu' = emu
      ]_vars

\* the program 4,0 emitted its first word, ran off its end and panicked there
C27_Witness ==
    /\ pc = "dead" /\ call = "step"
    /\ emu.memory = <<4, 0>> /\ emu.ip = 2
    /\ emu.output_buffer = <<4>>
    /\ op.code = "PanicOpcode"

\* the word at ip is positive and its opcode is one of the ten
KnownOpcode(e) ==
    get(e, e.ip) > 0 /\ (get(e, e.ip) % 100) \in Opcodes

(* C28, as claimed, every decimal digit above the opcode taken for a mode
   digit: a step() whose instruction word has a known opcode and, anywhere
   above its two opcode digits, a digit other than 0, 1 or 2 panics.  Refuted
   by 3104: Write has one parameter, its mode digit is 1, and the 3 above it
   is never looked at; the step emits the immediate operand. *)
C28_AnyDigitPanics ==
    [][ (Stepped /\ KnownOpcode(emu)
            /\ \E k \in 2..4 : Digit(get(emu, emu.ip), k) > 2)
        => pc' = "dead"
      ]_vars

(* C28, amended: a step() whose instruction word has a known opcode and, for
   one of the parameters of that opcode, a mode digit other than 0, 1 or 2
   panics in the decoding, before anything is executed: the machine is left
   as it was and no State is returned.  Digits above those of the opcode's
   parameters are not decoded. *)
C28_ParameterDigitPanics ==
    [][ (Stepped /\ KnownOpcode(emu)
            /\ \E i \in 1..Arity(get(emu, emu.ip) % 100) :
                    Digit(get(emu, emu.ip), i + 1) > 2)
        => /\ pc' = "dead"
           /\ state' = "None"
           /\ op'.code = "PanicMode"
           /\ emu' = emu
      ]_vars

\* the Add 3001, whose second parameter has the mode digit 3, panicked
C28_Witness ==
    /\ pc = "dead" /\ call = "step"
    /\ op.code = "PanicMode"
    /\ emu.memory = <<3001, 0, 0, 0, 99>> /\ emu.ip = 0

\* the instruction decoded at ip stores through an Immediate parameter
ImmediateTarget(e) ==
    LET o == fetch(e, e.ip)
    IN  \/ o.code \in {"Add", "Mul", "LessThan", "Equal"}
            /\ o.params[3].mode = "Immediate"
        \/ o.code = "Read" /\ o.params[1].mode = "Immediate"

(* C29, as claimed: a step() of an Add, Mul, LessThan or Equal whose third
   parameter is Immediate, or of a Read whose parameter is Immediate, panics
   and stores nothing in memory.  Refuted by the Read of 103,0,99 with the
   input queue empty: it returns ReadWait. *)
C29_ImmediateTargetPanics ==
    [][ (Stepped /\ ImmediateTarget(emu))
        => (pc' = "dead" /\ emu'.memory = emu.memory)
      ]_vars

(* C29, amended: a step() of an Add, Mul, LessThan or Equal whose third
   parameter is Immediate, or of a Read whose parameter is Immediate while an
   input is queued, panics: no State is returned, memory, ip, sp and the
   output queue are as before.  A Read with the input queue empty returns
   ReadWait whatever its parameter, the machine unchanged. *)
C29_ResolvedImmediateTargetPanics ==
    [][ (Stepped /\ ImmediateTarget(emu))
        => IF Decoded.code = "Read" /\ emu.input_buffer = <<>>
           THEN pc' = "idle" /\ state' = "ReadWait" /\ emu' = emu
           ELSE /\ pc' = "dead"
                /\ state' = "None"
                /\ emu'.memory = emu.memory
                /\ emu'.ip = emu.ip
                /\ emu'.sp = emu.sp
                /\ emu'.output_buffer = emu.output_buffer
      ]_vars

\* the Read of 103,0,99 panicked once the input 5 was written
C29_Witness ==
    /\ pc = "dead" /\ call = "step"
    /\ op = Op("Read", <<Immediate(0)>>)
    /\ written = <<5>>
    /\ emu.memory = <<103, 0, 99>> /\ emu.ip = 0

(* C24: every step() decodes the word that is at ip in memory now, not the
   word the program had there: the program 1,1,1,4,99,5,6,0,99 overwrites the
   99 at address 4 with 2 and then executes it as a Mul, halting with memory
   30,1,1,4,2,5,6,0,99; the program 1,9,10,3,2,3,11,0,99,30,40,50 has memory
   1,9,10,70,... after one step and 3500,9,10,70,... after two.  (For
   machines no set() has patched.) *)
C24_DecodesCurrentMemory ==
    /\ (loaded = Day02_5 /\ nset = 0 /\ state = "Halt")
        => emu.memory = <<30, 1, 1, 4, 2, 5, 6, 0, 99>> /\ emu.ip = 8
    /\ (loaded = Day02_5 /\ nset = 0 /\ pc # "dead" /\ emu.ip = 8)
        => op.code \in {"Mul", "Halt", "None"}
    /\ (loaded = Day02_1 /\ nset = 0 /\ pc # "dead")
        => /\ emu.ip \in {0, 4, 8}
           /\ emu.memory =
                CASE emu.ip = 0 -> Day02_1
                  [] emu.ip = 4 -> <<1, 9, 10, 70, 2, 3, 11, 0, 99, 30, 40, 50>>
                  [] emu.ip = 8 -> <<3500, 9, 10, 70, 2, 3, 11, 0, 99, 30, 40, 50>>

\* run() executed the Mul the first Add had written at address 4, and halted
C24_Witness ==
    /\ loaded = Day02_5 /\ nset = 0
    /\ call = "run" /\ pc = "idle" /\ state = "Halt"
    /\ emu.memory = <<30, 1, 1, 4, 2, 5, 6, 0, 99>>
    /\ get(new(loaded), 4) = 99 /\ get(emu, 4) = 2

(* C25: run() on a machine constructed from the program 109,1,204,-1,1001,
   100,1,100,1008,100,16,101,1006,101,0,99 and given no input returns Halt,
   and the output queue then holds the 16 words of the program, in order. *)
C25_QuineHalts ==
    (pc = "run")
        ~> (pc = "idle" /\ state = "Halt" /\ emu.output_buffer = Quine)

\* run() returned Halt with the program in the output queue; the counter at
\* address 100 is 16, the flag at 101 is 1, memory has grown to 102 cells
C25_Witness ==
    /\ loaded = Quine
    /\ call = "run" /\ pc = "idle" /\ state = "Halt"
    /\ emu.output_buffer = Quine
    /\ Len(emu.memory) = 102 /\ get(emu, 100) = 16 /\ get(emu, 101) = 1
    /\ emu.sp = 16

(* C21: clone() gives an emulator equal to the cloned one in every field
   (memory, ip, sp, both queues) and leaves the cloned one as it was; from
   then on every call (set, write, read, read_all, step, run) on one of the
   two emulators, or on an emulator cloned from the base, leaves every field
   of the other, and of the base, unchanged. *)
C21_CloneIndependent ==
    [][ /\ call' = "clone"
            => /\ machines'[arg'[2]] = machines[arg'[1]]
               /\ machines'[arg'[1]] = machines[arg'[1]]
        /\ call' \notin {"clone", "new"}
            => \A k \in Machines \ {arg'[1]} : machines'[k] = machines[k]
        /\ emu' = emu
      ]_vars

\* emulator 1 was given the input 5 and cloned into emulator 2; emulator 2
\* executed its Read, and emulator 1 still has the input queued and the
\* memory of the program
C21_Witness ==
    /\ call = "step" /\ arg = <<2>>
    /\ logs[2] = <<Call("write", <<5>>, <<>>), Call("clone", <<1>>, <<>>),
                   Call("step", <<>>, <<"Continue">>)>>
    /\ machines[2].memory = <<5, 0, 4, 0, 99>>
    /\ machines[2].input_buffer = <<>>
    /\ machines[1] = [new(loaded) EXCEPT !.input_buffer = <<5>>]

\* the calls of log made in order on the emulator e, alone: the emulator
\* they leave, and whether each returned what the log says
RECURSIVE Alone(_, _)
Alone(e, log) ==
    IF log = <<>>
    THEN [e |-> e, same |-> TRUE]
    ELSE LET prev == Alone(e, SubSeq(log, 1, Len(log) - 1))
             c == log[Len(log)]
             r == CHOOSE x \in Outcomes(prev.e, c.call, c.arg) : TRUE
         IN  [e |-> r.e, same |-> prev.same /\ r.ret = c.ret]

(* C22: whatever the order in which the driver interleaves its calls on the
   two emulators, each emulator is in the state, and each of its calls
   returned the State or the words, that the same calls give when made in
   the same order on that emulator alone, starting from its construction. *)
C22_InterleavingIndependent ==
    pc # "dead"
        => \A k \in Machines :
            Alone(new(loaded), logs[k]) = [e |-> machines[k], same |-> TRUE]

\* both emulators were given an input; the first ran to its Halt, the second
\* was stepped once
C22_Witness ==
    /\ logs[1] = <<Call("write", <<5>>, <<>>), Call("run", <<>>, <<"Halt">>)>>
    /\ logs[2] = <<Call("write", <<5>>, <<>>),
                   Call("step", <<>>, <<"Continue">>)>>
    /\ machines[1].output_buffer = <<5>> /\ machines[1].ip = 4
    /\ machines[2].output_buffer = <<>> /\ machines[2].ip = 2

(* C23: Emulator::new(program) gives memory equal to the words of the
   program in order, ip = 0, sp = 0 and both queues empty; no call changes
   the program, so an emulator constructed from it after another has
   executed starts in that same state, and the construction leaves the other
   emulator as it was. *)
C23_Construction ==
    [][ /\ loaded' = loaded
        /\ call' = "new"
            => /\ machines'[arg'[1]] =
                    [memory |-> loaded, ip |-> 0, sp |-> 0,
                     input_buffer |-> <<>>, output_buffer |-> <<>>]
               /\ \A k \in Machines \ {arg'[1]} : machines'[k] = machines[k]
      ]_vars

\* emulator 2 was constructed after emulator 1 had run to its Halt
C23_Witness ==
    /\ call = "new" /\ arg = <<2>>
    /\ logs[1] = <<Call("write", <<5>>, <<>>), Call("run", <<>>, <<"Halt">>)>>
    /\ machines[1].memory = <<5, 0, 4, 0, 99>>
    /\ loaded = <<3, 0, 4, 0, 99>>
    /\ machines[2].memory = loaded /\ machines[2].ip = 0

\* decimal numerals, to read words and program text as the numbers they
\* denote: a sign and a magnitude, the decimal digits of the magnitude from
\* the least significant, without leading zeros
RECURSIVE Trim(_)
Trim(m) ==
    IF m = <<>> \/ m[Len(m)] # 0 THEN m ELSE Trim(SubSeq(m, 1, Len(m) - 1))

At(m, i) == IF i \in 1..Len(m) THEN m[i] ELSE 0

RECURSIVE DecCarry(_, _)
DecCarry(cols, k) ==
    IF k = 1 THEN 0 ELSE (cols[k - 1] + DecCarry(cols, k - 1)) \div 10

Mag(cols) ==
    Trim([k \in 1..Len(cols) |-> (cols[k] + DecCarry(cols, k)) % 10])

MagAdd(a, b) ==
    Mag([k \in 1..(Len(a) + Len(b) + 1) |-> At(a, k) + At(b, k)])

\* a - b, for b not above a
MagSub(a, b) == Mag([k \in 1..Len(a) |-> At(a, k) - At(b, k)])

RECURSIVE MagColumn(_, _, _, _)
MagColumn(a, b, k, i) ==
    IF i > k THEN 0 ELSE At(a, i) * At(b, k + 1 - i) + MagColumn(a, b, k, i + 1)

MagMul(a, b) ==
    Mag([k \in 1..(Len(a) + Len(b)) |-> MagColumn(a, b, k, 1)])

MagLess(a, b) ==
    \/ Len(a) < Len(b)
    \/ /\ Len(a) = Len(b)
       /\ \E k \in 1..Len(a) :
            a[k] < b[k] /\ \A j \in (k + 1)..Len(a) : a[j] = b[j]

Num(neg, mag) == [neg |-> neg /\ mag # <<>>, mag |-> mag]

NumAdd(x, y) ==
    IF x.neg = y.neg THEN Num(x.neg, MagAdd(x.mag, y.mag))
    ELSE IF MagLess(x.mag, y.mag) THEN Num(y.neg, MagSub(y.mag, x.mag))
    ELSE Num(x.neg, MagSub(x.mag, y.mag))

NumMul(x, y) == Num(x.neg # y.neg, MagMul(x.mag, y.mag))

\* the number a token of digits with an optional sign denotes
Numeral(token) ==
    LET digits == IF token[1] \in {"+", "-"} THEN Tail(token) ELSE token
    IN  Num(token[1] = "-",
            Trim([k \in 1..Len(digits) |->
                    to_digit(digits[Len(digits) + 1 - k])]))

\* the magnitude of the bytes from the k-th on, taken as unsigned
RECURSIVE MagOfBytes(_, _)
MagOfBytes(bytes, k) ==
    IF k > Len(bytes) THEN <<>>
    ELSE LET high == MagOfBytes(bytes, k + 1)
         IN  Mag([i \in 1..(Len(high) + 3) |->
                    At(high, i) * 256 + (IF i = 1 THEN bytes[k] ELSE 0)])

\* the number a word denotes in two's complement
Reading(w) ==
    IF w[8] < 128 THEN Num(FALSE, MagOfBytes(w, 1))
    ELSE Num(TRUE, MagAdd(MagOfBytes([k \in 1..8 |-> 255 - w[k]], 1), <<1>>))

\* 2^63
TwoTo63 ==
    Numeral(<<"9", "2", "2", "3", "3", "7", "2", "0", "3", "6", "8", "5", "4",
              "7", "7", "5", "8", "0", "8">>)

\* the number is one an i64 holds
Fits(x) ==
    IF x.neg THEN ~MagLess(TwoTo63.mag, x.mag) ELSE MagLess(x.mag, TwoTo63.mag)

Token34915192 == <<"3", "4", "9", "1", "5", "1", "9", "2">>

(* C26: words are signed 64-bit integers: whenever the exact sum or product
   of the two operands is a number an i64 holds, Add and Mul give the word of
   exactly that number, without failing; an immediate is output as the number
   its text denotes; 34915192 * 34915192 gives 1219070632396864, whose bytes
   above the fourth are not zero. *)
C26_ExactInI64 ==
    /\ wide.op \in {"Add", "Mul"}
        => LET a == Numeral(split(text)[1])
               b == Numeral(split(text)[2])
               exact == IF wide.op = "Add" THEN NumAdd(a, b) ELSE NumMul(a, b)
           IN  Fits(exact) => ~wide.panic /\ Reading(wide.word) = exact
    /\ wide.op = "Write" => Reading(wide.word) = Numeral(split(text)[1])
    /\ wide.op = "Mul" /\ text = Token34915192 \o <<",">> \o Token34915192
        => wide.word = <<64, 8, 0, 0, 189, 84, 4, 0>>

\* Mul has given the square of 34915192
C26_Witness ==
    /\ text = Token34915192 \o <<",">> \o Token34915192
    /\ parsed.code = <<Small(34915192), Small(34915192)>>
    /\ wide = [op |-> "Mul", panic |-> FALSE,
               word |-> <<64, 8, 0, 0, 189, 84, 4, 0>>]

\* the token is an optional sign and at least one digit, and denotes a
\* number an i64 holds
ValidToken(t) ==
    LET digits == IF t # <<>> /\ t[1] \in {"+", "-"} THEN Tail(t) ELSE t
    IN  /\ digits # <<>>
        /\ \A i \in 1..Len(digits) : is_digit(digits[i])
        /\ Fits(Numeral(t))

(* C30: parsing a program text returns an error result whenever one of its
   comma-separated tokens is not a valid base-10 signed integer, and returns
   exactly the integers of the tokens, in order, when all of them are. *)
C30_InvalidTokenIsError ==
    parsed # NotParsed
        => LET tokens == split(text)
           IN  IF \A i \in 1..Len(tokens) : ValidToken(tokens[i])
               THEN /\ parsed.result = "Ok"
                    /\ Len(parsed.code) = Len(tokens)
                    /\ \A i \in 1..Len(tokens) :
                            Reading(parsed.code[i]) = Numeral(tokens[i])
               ELSE parsed.result = "Err"

(* C31: every panic a step() raises, for an unknown opcode, an unrecognised
   mode digit or a store through an Immediate parameter, has a payload that
   gives the instruction pointer of the failing instruction together with the
   failing opcode or address. *)
C31_PanicGivesIp ==
    [][ (Stepped /\ pc' = "dead")
        => /\ panic_payload(emu) # {}
           /\ \A d \in panic_payload(emu) :
                /\ "ip" \in DOMAIN d
                /\ d.ip = emu.ip
                /\ {"opcode", "address"} \cap DOMAIN d # {}
      ]_vars

\* feedback_amps has left its outer loop
Broken == fpc.at \in {"return", "done"}

(* C32: when feedback_amps leaves its loop because an amplifier, given a
   signal and run, had no output to read, that run returned Halt: the
   amplifier has halted, and what it ever emitted was read in earlier
   rounds. *)
C32_NoOutputMeansHalted ==
    Broken
        => /\ trace[Len(trace)] = AmpCall(fpc.amp, "read", 0, "None")
           /\ trace[Len(trace) - 1] = AmpCall(fpc.amp, "run", 0, "Halt")
           /\ amps[fpc.amp].output_buffer = <<>>

\* the calls of the trace after the construction of the amplifiers
Turns == SubSeq(trace, 2 * Len(phases) + 1, Len(trace))

\* the amplifier whose turn the q-th is, counted from 0
Ring(q) == (q % Len(phases)) + 1

\* the trace is the construction of the amplifiers in order, then turns of
\* write, run, read in ring order, each write passing the word last read
InRingOrder ==
    /\ \A j \in 1..Len(trace) :
        j <= 2 * Len(phases)
            => trace[j] = IF j % 2 = 1
                          THEN AmpCall((j + 1) \div 2, "clone", 0, "")
                          ELSE AmpCall(j \div 2, "write", phases[j \div 2], "")
    /\ \A j \in 1..Len(Turns) :
        LET q == (j - 1) \div 3
            t == Turns[j]
        IN  /\ t.amp = Ring(q)
            /\ t.call = <<"write", "run", "read">>[((j - 1) % 3) + 1]
            /\ t.call = "write"
                => t.word = IF q = 0 THEN 0 ELSE Turns[j - 1].word
            /\ t.call = "read" /\ j < Len(Turns) => t.state = "Some"

(* C33: feedback_amps makes each amplifier as a clone of the base emulator
   and writes it its phase before anything else; it then takes the
   amplifiers in ring order, and at each turn writes one signal, runs the
   amplifier and reads one output: the first signal is 0, every later one the
   word read at the turn before; the base emulator is never changed. *)
C33_RingOrder ==
    [][ /\ emu' = emu
        /\ emu = new(loaded)
        /\ fpc.at = "clone"
            => amps'[fpc.amp] =
                    [emu EXCEPT !.input_buffer = <<phases[fpc.amp]>>]
        /\ fpc.at = "write"
            => amps'[fpc.amp].input_buffer =
                    Append(amps[fpc.amp].input_buffer, signal)
        /\ InRingOrder'
      ]_vars

\* with the program of day07_example4.txt and the phases 9, 8, 7, 6, 5 the
\* first amplifier is given, at its second turn, what the fifth emitted
C33_Witness ==
    /\ loaded = Example4 /\ phases = <<9, 8, 7, 6, 5>>
    /\ Len(Turns) = 16
    /\ Turns[15] = AmpCall(5, "read", 129, "Some")
    /\ Turns[16] = AmpCall(1, "write", 129, "")
    /\ emu = new(Example4)

\* the outputs read so far, in order
Yields == SelectSeq(trace, LAMBDA t : t.call = "read" /\ t.state = "Some")

\* the rounds in which every amplifier yielded an output
Rounds == Len(Yields) \div Len(phases)

\* what the last amplifier yielded in the last such round; 0 before any
LastRound == IF Rounds = 0 THEN 0 ELSE Yields[Rounds * Len(phases)].word

(* C34: thruster_signal is what the last amplifier yielded in the most recent
   round in which every amplifier yielded an output, 0 if there is none: it
   changes only at the end of a round; the loop is left at the first
   amplifier that yields nothing, and feedback_amps then returns
   thruster_signal, whatever the amplifiers before it yielded in that
   round. *)
C34_ReturnsLastFullRound ==
    /\ fpc.at \notin {"none", "clone", "round"} => thruster_signal = LastRound
    /\ fpc.at = "round" => signal = LastRound
    /\ fpc.at = "done" => retval = <<LastRound>>
    /\ Broken <=> (trace # <<>> /\ trace[Len(trace)].state = "None")

\* the first amplifier yielded 3 in the second round and the second, halted,
\* nothing: the 2 of the first round is returned
C34_Witness ==
    /\ loaded = CountDown /\ phases = <<2, 1>>
    /\ fpc.at = "done"
    /\ Len(Yields) = 3 /\ Yields[3].word = 3 /\ signal = 3
    /\ retval = <<2>>

\* the k-th chunk of three words of all the output read so far
Shown(k) == SubSeq(shown, 3 * k - 2, 3 * k)

ShownChunks == 1..(Len(shown) \div 3)

IsScore(c) == c[1] = -1 /\ c[2] = 0

\* the last chunk, if any, that satisfies Test
LastShown(Test(_)) ==
    LET S == {k \in ShownChunks : Test(Shown(k))}
    IN  IF S = {} THEN <<>> ELSE <<Shown(CHOOSE k \in S : \A j \in S : j <= k)>>

\* what the output read so far says the score is
ScoreShown ==
    LET c == LastShown(IsScore) IN IF c = <<>> THEN 0 ELSE c[1][3]

\* what the output read so far says is at the point q: a tile name, or
\* "Empty"
TileShown(q) ==
    LET c == LastShown(LAMBDA t : ~IsScore(t) /\ <<t[1], t[2]>> = q)
    IN  IF c = <<>> THEN "Empty" ELSE Tiles[c[1][3] + 1]

\* where the output read so far last put a tile of the number n
WhereShown(n) ==
    LET c == LastShown(LAMBDA t : ~IsScore(t) /\ t[3] = n)
    IN  IF c = <<>> THEN <<>> ELSE <<<<c[1][1], c[1][2]>>>>

PointsShown == {<<Shown(k)[1], Shown(k)[2]>> : k \in ShownChunks}

\* display and score are what all the output read so far says
AllApplied ==
    /\ arcade.score = ScoreShown
    /\ \A q \in PointsShown \cup DOMAIN arcade.display.data :
            TileShown(q) = IF q \in DOMAIN arcade.display.data
                           THEN arcade.display.data[q] ELSE "Empty"
    /\ arcade.display.paddle = WhereShown(3)
    /\ arcade.display.ball = WhereShown(4)

\* the joystick value the strategy gives for what has been shown
JoystickShown ==
    IF strategy = "match_ball" /\ WhereShown(3) # <<>> /\ WhereShown(4) # <<>>
    THEN signum(WhereShown(4)[1][1] - WhereShown(3)[1][1])
    ELSE 0

(* C35: a step of the ArcadeMachine that returns has run the emulator to a
   Halt or to a Read with no input and has taken all its output; when it
   comes to choose, display and score show all the output read so far; after
   a ReadWait it writes one input, the value the strategy gives for that
   display, and returns true; after a Halt it writes nothing and returns
   false, and ArcadeMachine::run ends, then and only then. *)
C35_ArcadeStep ==
    [][ /\ (apc.at = "step" /\ apc'.at = "chunks")
            => /\ arcade'.emulator.output_buffer = <<>>
               /\ apc'.state = "Halt" => AtHalt(arcade'.emulator)
               /\ apc'.state = "ReadWait" => ReadBlocked(arcade'.emulator)
               /\ apc'.state \in {"Halt", "ReadWait"}
        /\ (apc.at = "chunks" /\ apc'.at \in {"step", "done"})
            => /\ AllApplied
               /\ IF apc.state = "ReadWait"
                  THEN /\ arcade' = [arcade EXCEPT !.emulator.input_buffer =
                                        Append(@, JoystickShown)]
                       /\ apc'.ret = TRUE /\ apc'.at = "step"
                  ELSE /\ arcade' = arcade
                       /\ apc'.ret = FALSE /\ apc'.at = "done"
        /\ apc'.at = "done" => apc.state = "Halt" /\ AtHalt(arcade.emulator)
      ]_vars

\* the game: the paddle at x = 1 and the ball at x = 2 have been drawn, the
\* score is 1, and the joystick value 1 has been written for the Read
C35_Witness ==
    /\ loaded = Game /\ strategy = "match_ball"
    /\ apc.at = "step" /\ apc.ret = TRUE /\ apc.state = "ReadWait"
    /\ arcade.score = 1
    /\ arcade.display.paddle = <<<<1, 0>>>> /\ arcade.display.ball = <<<<2, 0>>>>
    /\ arcade.emulator.input_buffer = <<1>>
    /\ arcade.emulator.ip = 16

\* both drivers have finished
BothEnded == eager.at \in {"done", "dead"} /\ lazy.at \in {"done", "dead"}

(* C36: when the inputs are all written before run(), the run ends with the
   same memory, ip, sp, output and State as when each input is written only
   after run() has returned ReadWait and run() is called again; one panics
   exactly when the other does. *)
C36_EagerAsLazy ==
    BothEnded =>
        /\ eager.at = lazy.at
        /\ eager.at = "done" =>
                /\ eager.e.memory = lazy.e.memory
                /\ eager.e.ip = lazy.e.ip
                /\ eager.e.sp = lazy.e.sp
                /\ eager.e.output_buffer = lazy.e.output_buffer
                /\ eager.state = lazy.state

\* the echo program given 1, 5, 0: the second driver has been through
\* ReadWait three times, the first never, and both have halted with <<1, 5>>
C36_Witness ==
    /\ BothEnded
    /\ loaded = EchoUntilZero
    /\ inputs = <<1, 5, 0>>
    /\ lazy.given = 3 /\ eager.given = 3
    /\ eager.state = "Halt" /\ lazy.state = "Halt"
    /\ lazy.e.output_buffer = <<1, 5>>

\* the calls made on emulator k since Emulator::new, each with what it
\* returned; those made on the emulator it was cloned from are among them
History(k) == SelectSeq(logs[k], LAMBDA c : c.call # "clone")

\* a call without what it returned
Asked(c) == [call |-> c.call, arg |-> c.arg]

\* the first n calls of the two histories are the same calls
SameCalls(n) ==
    \A i \in 1..n : Asked(History(1)[i]) = Asked(History(2)[i])

(* C37: two emulators constructed from the same program on which the same
   calls of write, set, read, read_all, step and run have been made, in the
   same order, have been returned the same values by each of them, and are
   equal in memory, ip, sp and both queues. *)
C37_Deterministic ==
    /\ \A n \in 1..Len(History(1)) :
            n <= Len(History(2)) /\ SameCalls(n)
                => History(1)[n].ret = History(2)[n].ret
    /\ (Len(History(1)) = Len(History(2)) /\ SameCalls(Len(History(1)))
            /\ pc # "dead")
            => machines[1] = machines[2]

\* each of the two was given 5 and run, separately: both returned ReadWait
\* after writing the 5 back
C37_Witness ==
    /\ loaded = <<3, 7, 4, 7, 1105, 1, 0>>
    /\ logs[1] = <<Call("write", <<5>>, <<>>), Call("run", <<>>, <<"ReadWait">>)>>
    /\ logs[2] = logs[1]
    /\ machines[1].output_buffer = <<5>>
    /\ machines[1].ip = 0
    /\ machines[2] = machines[1]

\* the instruction decoded stores a word: Add, Mul, LessThan, Equal, or a
\* Read that has an input to take
Stores ==
    \/ Decoded.code \in {"Add", "Mul", "LessThan", "Equal"}
    \/ Decoded.code = "Read" /\ emu.input_buffer # <<>>

\* the parameter it stores through
Target == IF Decoded.code = "Read" THEN Decoded.params[1] ELSE Decoded.params[3]

\* the addresses of the instruction decoded: its word and its operands
OwnWords == emu.ip..(emu.ip + size(Decoded) - 1)

(* C38: a step() that decodes an Add, Mul, LessThan, Equal or Read which
   stores into its own instruction word or one of its own operand words
   advances ip by the size of the instruction as it was decoded, 4 or 2,
   whatever the words at ip now say; and every step() executes the
   instruction that the words at ip say when it is called, so the new word
   is executed when ip comes to it again, and not before. *)
C38_AdvanceAsDecoded ==
    [][ /\ (Returned /\ Stores /\ Address(emu, Target) \in OwnWords)
            => /\ state' = "Continue"
               /\ size(Decoded) = IF Decoded.code = "Read" THEN 2 ELSE 4
               /\ emu'.ip = emu.ip + size(Decoded)
               /\ op' = Decoded
        /\ Stepped => op' = Decoded
      ]_vars

\* the Add at 0 has made its own word 99, a Halt of size 1, and ip is 4
C38_Witness ==
    /\ loaded = <<1101, 98, 1, 0, 1105, 1, 0>> /\ nset = 0
    /\ call = "step" /\ state = "Continue"
    /\ op.code = "Add"
    /\ get(emu, 0) = 99 /\ fetch(emu, 0).code = "Halt"
    /\ emu.ip = 4

====
